---- MODULE Spec2Model ----
(***************************************************************************)
(* Machinist: the workflow engine (machinist/workflow.py) and the tool     *)
(* registry (machinist/registry.py) as state machines.                     *)
(*                                                                         *)
(* Python strings are sequences of one-character strings, so that the      *)
(* string operations of the code (startswith, split, strip, lower, in)     *)
(* are computed and not assumed.  Python values are tagged records:        *)
(*   [t |-> type name, s |-> str(value)]        scalars                    *)
(*   [t |-> "list", items |-> <<values>>]       lists                      *)
(*   [t |-> "dict", kv |-> <<<<key, value>>>>]  dicts, in insertion order  *)
(*   [t |-> "raise", exc |-> ..., ...]          a raised exception         *)
(***************************************************************************)
EXTENDS Integers, Sequences, FiniteSets, TLC

VARIABLES
    mode,        \* which part of the program this behaviour exercises
    registry,    \* ToolRegistry: <root>/<tool_id>/metadata.json, in directory order
    workflow,    \* the CompositionSpec handed to WorkflowEngine.execute
    cache,       \* WorkflowEngine._execution_cache: <<key, result>> pairs
    stack,       \* the activation records of execute, innermost last
    outcome,     \* what the outermost execute gave its caller
    log,         \* the runs of step logic on tools in the current outermost execute
    calls,       \* number of outermost execute calls made on this engine
    reg,         \* registry documents: tool_id -> metadata document
    last,        \* the result of the last registry or pure-function operation
    ops          \* number of registry operations performed

vars == <<mode, registry, workflow, cache, stack, outcome, log, calls, reg, last, ops>>

(***************************************************************************)
(* Strings                                                                 *)
(***************************************************************************)

\* The characters the model's strings are made of, in code point order.
Chars == <<" ", "!", "\"", "$", "'", ".", "/", "0", "1", "2", ":", "=", "A", "C",
           "D", "E", "F", "H", "I", "L", "N", "R", "S", "T", "U", "\\", "_", "a", "b", "c",
           "d", "e", "f", "g", "h", "i", "j", "k", "l", "m", "n", "o", "p", "q",
           "r", "s", "t", "u", "v", "w", "x", "y", "z", "{", "}">>

CharRank(c) == CHOOSE i \in 1..Len(Chars) : Chars[i] = c

\* str.lower() on one character.
LowerChar(c) ==
    CASE c = "A" -> "a" [] c = "C" -> "c" [] c = "D" -> "d" [] c = "E" -> "e"
      [] c = "F" -> "f" [] c = "H" -> "h" [] c = "I" -> "i" [] c = "L" -> "l"
      [] c = "N" -> "n" [] c = "R" -> "r"
      [] c = "S" -> "s" [] c = "T" -> "t" [] c = "U" -> "u" [] OTHER -> c

Lower(s) == [i \in 1..Len(s) |-> LowerChar(s[i])]

\* str.startswith
StartsWith(s, p) == Len(s) >= Len(p) /\ SubSeq(s, 1, Len(p)) = p

\* str.find: the first index at which sub occurs in s, 0 when it does not.
Find(s, sub) ==
    LET hits == {i \in 1..(Len(s) - Len(sub) + 1) : SubSeq(s, i, i + Len(sub) - 1) = sub}
    IN  IF hits = {} THEN 0 ELSE CHOOSE i \in hits : \A j \in hits : i <= j

\* sub in s
Contains(s, sub) == Find(s, sub) > 0

\* s.split(sep, 1) for a separator that occurs in s: the two parts.
SplitOnce(s, sep) ==
    LET i == Find(s, sep)
    IN  <<SubSeq(s, 1, i - 1), SubSeq(s, i + Len(sep), Len(s))>>

\* s.strip(chars) for a set of characters.
StripChars(s, cs) ==
    LET keep == {i \in 1..Len(s) : s[i] \notin cs}
    IN  IF keep = {} THEN <<>>
        ELSE SubSeq(s, CHOOSE i \in keep : \A j \in keep : i <= j,
                       CHOOSE i \in keep : \A j \in keep : i >= j)

\* s.strip(): whitespace removed at both ends.
Strip(s) == StripChars(s, {" "})

\* a < b for strings, as Python compares them.
RECURSIVE StrLess(_, _)
StrLess(a, b) ==
    IF b = <<>> THEN FALSE
    ELSE IF a = <<>> THEN TRUE
    ELSE IF a[1] # b[1] THEN CharRank(a[1]) < CharRank(b[1])
    ELSE StrLess(Tail(a), Tail(b))

RECURSIVE Join(_, _)
Join(parts, sep) ==
    IF parts = <<>> THEN <<>>
    ELSE IF Len(parts) = 1 THEN parts[1]
    ELSE parts[1] \o sep \o Join(Tail(parts), sep)

(***************************************************************************)
(* Python values                                                           *)
(***************************************************************************)

PyTrue == [t |-> "bool", s |-> <<"T", "r", "u", "e">>]
PyFalse == [t |-> "bool", s |-> <<"F", "a", "l", "s", "e">>]
PyNone == [t |-> "NoneType", s |-> <<"N", "o", "n", "e">>]
PyStr(s) == [t |-> "str", s |-> s]
PyInt(digits) == [t |-> "int", s |-> digits]
PyList(items) == [t |-> "list", items |-> items]
PyDict(kv) == [t |-> "dict", kv |-> kv]
\* A raised exception, with the step id and the tool id its message names
\* (<<>> and "" when it names none).
Raise(exc, step, tool) == [t |-> "raise", exc |-> exc, step |-> step, tool |-> tool]

IsRaise(v) == v.t = "raise"

\* dict: key in d, d.get(key), d[key] = value.
HasKey(d, k) == \E i \in 1..Len(d.kv) : d.kv[i][1] = k

Get(d, k) ==
    IF HasKey(d, k) THEN d.kv[CHOOSE i \in 1..Len(d.kv) : d.kv[i][1] = k][2] ELSE PyNone

SetItem(d, k, v) ==
    IF HasKey(d, k)
    THEN PyDict([i \in 1..Len(d.kv) |-> IF d.kv[i][1] = k THEN <<k, v>> ELSE d.kv[i]])
    ELSE PyDict(Append(d.kv, <<k, v>>))

Keys(d) == {d.kv[i][1] : i \in 1..Len(d.kv)}

\* str(v) and repr(v).
RECURSIVE PyStrOf(_)
RECURSIVE PyReprOf(_)
PyStrOf(v) ==
    CASE v.t = "list" ->
           <<"[">> \o Join([i \in 1..Len(v.items) |-> PyReprOf(v.items[i])], <<",", " ">>) \o <<"]">>
      [] v.t = "dict" ->
           <<"{">> \o Join([i \in 1..Len(v.kv) |->
                             <<"'">> \o v.kv[i][1] \o <<"'", ":", " ">> \o PyReprOf(v.kv[i][2])],
                           <<",", " ">>) \o <<"}">>
      [] OTHER -> v.s

PyReprOf(v) == IF v.t = "str" THEN <<"'">> \o v.s \o <<"'">> ELSE PyStrOf(v)

\* Mutant: every string is true.
Truthy_AnyStr(v) ==
    CASE v.t = "bool" -> v = PyTrue
      [] v.t = "NoneType" -> FALSE
      [] v.t = "int" -> v.s # <<"0">>
      [] v.t = "str" -> TRUE
      [] v.t = "list" -> v.items # <<>>
      [] v.t = "dict" -> v.kv # <<>>

\* bool(v)
Truthy(v) ==
    CASE v.t = "bool" -> v = PyTrue
      [] v.t = "NoneType" -> FALSE
      [] v.t = "int" -> v.s # <<"0">>
      [] v.t = "str" -> v.s # <<>>
      [] v.t = "list" -> v.items # <<>>
      [] v.t = "dict" -> v.kv # <<>>

(***************************************************************************)
(* WorkflowEngine: variable resolution, conditions, cache keys             *)
(***************************************************************************)

\* Mutant: a $step.field that finds no mapping gives None.
ResolveValue_AbsentIsNone(value, context, item) ==
    IF value = <<"$", "i", "t", "e", "m">> /\ item # PyNone THEN item
    ELSE IF StartsWith(value, <<"$">>) THEN
        LET key == Tail(value)
        IN  IF Contains(key, <<".">>) THEN
                LET step_id == SplitOnce(key, <<".">>)[1]
                    var_name == SplitOnce(key, <<".">>)[2]
                IN  IF HasKey(context, step_id) /\ Get(context, step_id).t = "dict"
                    THEN Get(Get(context, step_id), var_name)
                    ELSE PyNone
            ELSE Get(context, key)
    ELSE IF Lower(value) = <<"t", "r", "u", "e">> THEN PyTrue
    ELSE IF Lower(value) = <<"f", "a", "l", "s", "e">> THEN PyFalse
    ELSE PyStr(StripChars(StripChars(value, {"\""}), {"'"}))

\* WorkflowEngine._resolve_value(value, context, item); item is PyNone when
\* the caller passes none.
ResolveValue(value, context, item) ==
    IF value = <<"$", "i", "t", "e", "m">> /\ item # PyNone THEN item
    ELSE IF StartsWith(value, <<"$">>) THEN
        LET key == Tail(value)
        IN  IF Contains(key, <<".">>) THEN
                LET step_id == SplitOnce(key, <<".">>)[1]
                    var_name == SplitOnce(key, <<".">>)[2]
                IN  IF HasKey(context, step_id) /\ Get(context, step_id).t = "dict"
                    THEN Get(Get(context, step_id), var_name)
                    ELSE Raise("ValueError", step_id, "")
            ELSE Get(context, key)
    ELSE IF Lower(value) = <<"t", "r", "u", "e">> THEN PyTrue
    ELSE IF Lower(value) = <<"f", "a", "l", "s", "e">> THEN PyFalse
    ELSE PyStr(StripChars(StripChars(value, {"\""}), {"'"}))

\* Mutant: the two values are compared as they are, not their str().
CompareBranch_Typed(condition, op, context) ==
    LET lhs_val == ResolveValue(Strip(SplitOnce(condition, op)[1]), context, PyNone)
        rhs_val == ResolveValue(Strip(SplitOnce(condition, op)[2]), context, PyNone)
    IN  IF IsRaise(lhs_val) \/ IsRaise(rhs_val) THEN "pass"
        ELSE IF lhs_val = rhs_val THEN "equal"
        ELSE "differ"

\* One comparison branch of _evaluate_condition: "pass" when a side raised.
CompareBranch(condition, op, context) ==
    LET lhs_val == ResolveValue(Strip(SplitOnce(condition, op)[1]), context, PyNone)
        rhs_val == ResolveValue(Strip(SplitOnce(condition, op)[2]), context, PyNone)
    IN  IF IsRaise(lhs_val) \/ IsRaise(rhs_val) THEN "pass"
        ELSE IF PyStrOf(lhs_val) = PyStrOf(rhs_val) THEN "equal"
        ELSE "differ"

\* The last branch of _evaluate_condition: the whole text as one variable.
ConditionFallback(condition, context) ==
    LET val == ResolveValue(condition, context, PyNone)
    IN  IF IsRaise(val) THEN FALSE ELSE Truthy(val)

\* WorkflowEngine._evaluate_condition(condition, context); an absent
\* condition (None) and the empty text are both <<>>.
EvaluateCondition(condition, context) ==
    LET EQ == <<"=", "=">>
        NE == <<"!", "=">>
        eq == IF Contains(condition, EQ) THEN CompareBranch(condition, EQ, context) ELSE "pass"
        ne == IF Contains(condition, NE) THEN CompareBranch(condition, NE, context) ELSE "pass"
    IN  IF condition = <<>> THEN TRUE
        ELSE IF eq # "pass" THEN eq = "equal"
        ELSE IF ne # "pass" THEN ne = "differ"
        ELSE ConditionFallback(condition, context)

\* sorted(pairs) by key.
RECURSIVE SortPairs(_)
SortPairs(pairs) ==
    IF pairs = <<>> THEN <<>>
    ELSE LET m == CHOOSE i \in 1..Len(pairs) :
                      \A j \in 1..Len(pairs) : j = i \/ StrLess(pairs[i][1], pairs[j][1])
             rest == [j \in 1..(Len(pairs) - 1) |-> IF j < m THEN pairs[j] ELSE pairs[j + 1]]
         IN  <<pairs[m]>> \o SortPairs(rest)

\* WorkflowEngine._hash_inputs(tool_id, inputs): the tool id and the JSON
\* object of the name-sorted parameters, each value passed through str().
HashInputs(tool_id, inputs) ==
    <<tool_id, SortPairs([i \in 1..Len(inputs.kv) |-> <<inputs.kv[i][1], PyStrOf(inputs.kv[i][2])>>])>>

(***************************************************************************)
(* ToolRegistry as the engine reads it                                     *)
(*   registry.tools: the metadata documents, in root.iterdir() order       *)
(*   registry.cached_specs: the cached CompositionSpecs, in glob order     *)
(***************************************************************************)

\* ToolRegistry.find_workflow_by_id(pipeline_id): the first cached
\* CompositionSpec with that pipeline_id in scan order, <<>> for None.
FindWorkflowById(r, pipeline_id) ==
    LET hits == {i \in 1..Len(r.cached_specs) : r.cached_specs[i].pipeline_id = pipeline_id}
    IN  IF hits = {} THEN <<>>
        ELSE <<r.cached_specs[CHOOSE i \in hits : \A j \in hits : i <= j]>>

\* The tool_id of each metadata document, in order.
ToolIds(metas) == [i \in 1..Len(metas) |-> metas[i].tool_id]

\* ToolRegistry.find_by_template_id(template_id)
FindByTemplateId(r, template_id) ==
    LET Test(m) == m.template_id = template_id
    IN  ToolIds(SelectSeq(r.tools, Test))

\* [t.tool_id for t in list_tools() if t.spec.name == tool_id]
FindByName(r, name) ==
    LET Test(m) == m.name = name
    IN  ToolIds(SelectSeq(r.tools, Test))

\* ToolRegistry.load(tool_id) for a registered tool.
Load(r, tool_id) == r.tools[CHOOSE i \in 1..Len(r.tools) : r.tools[i].tool_id = tool_id]

\* Mutant: the semantic tags are not consulted.
IsPure_FlagOnly(meta) == meta.deterministic

\* The purity test of _run_step_logic.
IsPure(meta) ==
    meta.deterministic \/ "pure" \in meta.semantic_tags \/ "idempotent" \in meta.semantic_tags

\* ToolRegistry.get_executable(tool_id) for a registered tool, as the engine
\* sees it: the callable (from the executable cache, or loaded and then
\* cached), None after a load error was printed, or FileNotFoundError.
\*   exe of a tool: "ok" when its source file defines the callable entry
\*   point, "missing" when the file is not there, "no_entry" when the file
\*   lacks the name, "not_callable" when the name is not callable
\* Mutant: whatever the source file holds under the name is returned and cached.
GetExecutable_NoCallableCheck(r, tool_id) ==
    IF tool_id \in r.executable_cache
    THEN [out |-> "func", executable_cache |-> r.executable_cache]
    ELSE IF Load(r, tool_id).exe = "missing"
    THEN [out |-> "FileNotFoundError", executable_cache |-> r.executable_cache]
    ELSE IF Load(r, tool_id).exe \in {"ok", "not_callable"}
    THEN [out |-> "func", executable_cache |-> r.executable_cache \cup {tool_id}]
    ELSE [out |-> "None", executable_cache |-> r.executable_cache]

GetExecutable(r, tool_id) ==
    IF tool_id \in r.executable_cache
    THEN [out |-> "func", executable_cache |-> r.executable_cache]
    ELSE IF Load(r, tool_id).exe = "missing"
    THEN [out |-> "FileNotFoundError", executable_cache |-> r.executable_cache]
    ELSE IF Load(r, tool_id).exe = "ok"
    THEN [out |-> "func", executable_cache |-> r.executable_cache \cup {tool_id}]
    ELSE [out |-> "None", executable_cache |-> r.executable_cache]

\* Mutant: the name is looked for before the template id.
ConcreteToolIds_NameFirst(r, tool_id) ==
    IF FindByName(r, tool_id) # <<>> THEN FindByName(r, tool_id)
    ELSE FindByTemplateId(r, tool_id)

\* Mutant: when nothing matches, the first registered tool is taken.
ConcreteToolIds_AnyTool(r, tool_id) ==
    IF FindByTemplateId(r, tool_id) # <<>> THEN FindByTemplateId(r, tool_id)
    ELSE IF FindByName(r, tool_id) # <<>> THEN FindByName(r, tool_id)
    ELSE ToolIds(r.tools)

\* concrete_tool_ids of _run_step_logic: by template id, else by name.
ConcreteToolIds(r, tool_id) ==
    IF FindByTemplateId(r, tool_id) # <<>> THEN FindByTemplateId(r, tool_id)
    ELSE FindByName(r, tool_id)

(***************************************************************************)
(* WorkflowEngine.execute                                                  *)
(***************************************************************************)

\* The top activation record of execute and the step its loop is at.
Top == stack[Len(stack)]
Steps(f) == f.comp_spec.steps
AtStep(f) == f.pc <= Len(Steps(f))
CurStep(f) == Steps(f)[f.pc]

\* Mutant: execute starts from an empty context.
NewFrame_Empty(comp_spec, inputs) ==
    [comp_spec |-> comp_spec, context |-> PyDict(<<>>), pc |-> 1,
     in_loop |-> FALSE, loop_collection |-> <<>>, k |-> 1, step_outputs |-> <<>>]

\* execute entered: context = inputs.copy(), the loop before its first step.
NewFrame(comp_spec, inputs) ==
    [comp_spec |-> comp_spec, context |-> inputs, pc |-> 1,
     in_loop |-> FALSE, loop_collection |-> <<>>, k |-> 1, step_outputs |-> <<>>]

\* Mutant: the value is stored as it is, under the step id.
StoreOutput_Unwrapped(context, step, value) ==
    IF step.outputs # <<>> THEN SetItem(context, step.id, value) ELSE context

\* context[step.id] = {output_name: value} when the step declares outputs.
StoreOutput(context, step, value) ==
    IF step.outputs # <<>>
    THEN SetItem(context, step.id, PyDict(<<<<step.outputs[1], value>>>>))
    ELSE context

\* The activation record after _run_step_logic returned result for the
\* current step: appended to step_outputs in a foreach loop, stored otherwise.
Deliver(f, result) ==
    IF f.in_loop
    THEN [f EXCEPT !.step_outputs = Append(@, result), !.k = @ + 1]
    ELSE [f EXCEPT !.context = StoreOutput(@, CurStep(f), result), !.pc = @ + 1]

\* Mutant: the condition is not consulted.
ConditionHolds_Always(f) == TRUE

\* Whether the step's condition lets it run.
ConditionHolds(f) ==
    CurStep(f).if_condition = <<>> \/ EvaluateCondition(CurStep(f).if_condition, f.context)

\* Mutant: every iteration sees the first item.
CurItem_First(f) == IF f.in_loop THEN f.loop_collection[1] ELSE PyNone

\* The item of the current iteration, PyNone outside a loop.
CurItem(f) == IF f.in_loop THEN f.loop_collection[f.k] ELSE PyNone

\* kwargs of the current step: each binding resolved, in declaration order.
Kwargs(f) ==
    PyDict([i \in 1..Len(CurStep(f).bind) |->
              <<CurStep(f).bind[i][1], ResolveValue(CurStep(f).bind[i][2], f.context, CurItem(f))>>])

\* The first exception raised while resolving the bindings, <<>> when none.
BindError(f) ==
    LET kw == Kwargs(f).kv
        bad == {i \in 1..Len(kw) : IsRaise(kw[i][2])}
    IN  IF bad = {} THEN <<>> ELSE <<kw[CHOOSE i \in bad : \A j \in bad : i <= j][2]>>

\* The top record is about to bind and run step logic: a single step whose
\* condition holds, or the next item of a foreach loop.
ReadyToRun(f) ==
    /\ AtStep(f)
    /\ \/ f.in_loop /\ f.k <= Len(f.loop_collection)
       \/ ~f.in_loop /\ ConditionHolds(f) /\ CurStep(f).foreach = <<>>

\* The tool _run_step_logic picks for the current step.
ToolIdToRun(f) == ConcreteToolIds(registry, CurStep(f).tool_id)[1]

\* The exception step logic raises before any executable is invoked, <<>> when none.
StepLogicError(f) ==
    IF BindError(f) # <<>> THEN BindError(f)
    ELSE IF FindWorkflowById(registry, CurStep(f).tool_id) # <<>> THEN <<>>
    ELSE IF ConcreteToolIds(registry, CurStep(f).tool_id) = <<>>
        THEN <<Raise("RuntimeError", CurStep(f).id, CurStep(f).tool_id)>>
    ELSE <<>>

(***************************************************************************)
(* Bounds                                                                  *)
(***************************************************************************)

\* Outermost execute calls made on one WorkflowEngine.
MaxCalls == 2

\* Nesting depth of execute (the code has no limit of its own).
MaxDepth == 3

(***************************************************************************)
(* The registries and workflows of the engine's behaviours                 *)
(***************************************************************************)

\* ToolMetadata of the tool of test_workflow_conditional, for each way a
\* contract can make it pure or not; exe is the state of its source file.
PrintMsg(deterministic, semantic_tags) ==
    [tool_id |-> "print_msg", template_id |-> "print_msg_template", name |-> "print_msg",
     deterministic |-> deterministic, semantic_tags |-> semantic_tags, exe |-> "ok"]

Step(id, tool_id, bind, foreach, outputs, if_condition) ==
    [id |-> id, tool_id |-> tool_id, bind |-> bind, foreach |-> foreach,
     outputs |-> outputs, if_condition |-> if_condition]

\* The CompositionSpec of test_workflow_conditional.
TestPipeline ==
    [pipeline_id |-> "test_pipeline",
     steps |-> <<Step(<<"s", "t", "e", "p", "1">>, "print_msg_template", <<<<<<"m", "s", "g">>, <<"'", "H", "e", "l", "l", "o", "'">>>>>>,
                      <<>>, <<<<"r", "e", "s">>>>, <<>>),
                 Step(<<"s", "t", "e", "p", "2">>, "print_msg_template", <<<<<<"m", "s", "g">>, <<"'", "C", "o", "n", "d", "i", "t", "i", "o", "n", "a", "l", "'">>>>>>,
                      <<>>, <<<<"r", "e", "s">>>>, <<"$", "d", "o", "_", "i", "t">>)>>]

\* Two steps that bind the parameters of the same tool (found by its name),
\* in different orders, to two inputs and a literal.
MemoPipeline ==
    [pipeline_id |-> "memo",
     steps |-> <<Step(<<"a">>, "print_msg", <<<<<<"x">>, <<"$", "v">>>>, <<<<"y">>, <<"'", "k", "'">>>>>>,
                      <<>>, <<<<"r", "e", "s">>>>, <<>>),
                 Step(<<"b">>, "print_msg", <<<<<<"y">>, <<"\"", "k", "\"">>>>, <<<<"x">>, <<"$", "w">>>>>>,
                      <<>>, <<<<"r", "e", "s">>>>, <<>>)>>]

\* A foreach step over an input, then a step fed with the collected list.
LoopPipeline ==
    [pipeline_id |-> "loop",
     steps |-> <<Step(<<"e", "a", "c", "h">>, "print_msg_template", <<<<<<"x">>, <<"$", "i", "t", "e", "m">>>>>>,
                      <<"$", "i", "t", "e", "m", "s">>, <<<<"o", "u", "t">>>>, <<>>),
                 Step(<<"a", "f", "t", "e", "r">>, "print_msg", <<<<<<"x">>, <<"$", "e", "a", "c", "h", ".", "o", "u", "t">>>>>>,
                      <<>>, <<<<"r", "e", "s">>>>, <<>>)>>]

\* A step that runs the cached workflow "memo", then a step gated on its result.
OuterPipeline ==
    [pipeline_id |-> "outer",
     steps |-> <<Step(<<"s", "u", "b">>, "memo", <<<<<<"v">>, <<"$", "p">>>>, <<<<"w">>, <<"'", "k", "'">>>>>>,
                      <<>>, <<<<"c", "t", "x">>>>, <<>>),
                 Step(<<"f", "i", "n">>, "print_msg", <<<<<<"x">>, <<"'", "k", "'">>>>>>,
                      <<>>, <<>>, <<"$", "s", "u", "b", ".", "c", "t", "x">>)>>]

\* A step whose tool_id names no cached workflow and no tool, then a step
\* that would run.
UnknownPipeline ==
    [pipeline_id |-> "unknown",
     steps |-> <<Step(<<"u">>, "nope", <<<<<<"x">>, <<"'", "k", "'">>>>>>, <<>>, <<<<"r", "e", "s">>>>, <<>>),
                 Step(<<"v">>, "print_msg", <<<<<<"x">>, <<"'", "k", "'">>>>>>, <<>>, <<<<"r", "e", "s">>>>, <<>>)>>]

\* Steps whose tool_id is a template id two tools share (and a third tool's
\* name), a name two tools share, and the pipeline_id of a cached workflow
\* (and a tool's template id).
ResolvePipeline ==
    [pipeline_id |-> "resolve",
     steps |-> <<Step(<<"s", "1">>, "tpl", <<<<<<"x">>, <<"'", "k", "'">>>>>>, <<>>, <<<<"r", "e", "s">>>>, <<>>),
                 Step(<<"s", "2">>, "g", <<<<<<"x">>, <<"'", "k", "'">>>>>>, <<>>, <<<<"r", "e", "s">>>>, <<>>),
                 Step(<<"s", "3">>, "memo", <<<<<<"v">>, <<"'", "1", "'">>>>, <<<<"w">>, <<"'", "1", "'">>>>>>,
                      <<>>, <<<<"r", "e", "s">>>>, <<>>)>>]

Workflows == {TestPipeline, MemoPipeline, LoopPipeline, OuterPipeline, UnknownPipeline}

\* Bindings of the form $step.field: to a conditional step, to an input, and
\* to a step that declares no output.
BindPipeline ==
    [pipeline_id |-> "bind",
     steps |-> <<Step(<<"g">>, "print_msg", <<<<<<"x">>, <<"'", "k", "'">>>>>>, <<>>, <<<<"r", "e", "s">>>>, <<"$", "d", "o", "_", "i", "t">>),
                 Step(<<"h">>, "print_msg", <<<<<<"x">>, <<"$", "g", ".", "r", "e", "s">>>>>>, <<>>, <<>>, <<>>),
                 Step(<<"i">>, "print_msg", <<<<<<"x">>, <<"$", "p", ".", "f">>>>>>, <<>>, <<<<"r", "e", "s">>>>, <<>>),
                 Step(<<"j">>, "print_msg", <<<<<<"y">>, <<"'", "k", "'">>>>, <<<<"x">>, <<"$", "h", ".", "r", "e", "s">>>>>>,
                      <<>>, <<<<"r", "e", "s">>>>, <<>>)>>]

\* A binding to a step that runs later.
ForwardPipeline ==
    [pipeline_id |-> "forward",
     steps |-> <<Step(<<"a", "1">>, "print_msg", <<<<<<"x">>, <<"$", "b", "1", ".", "r", "e", "s">>>>>>, <<>>, <<<<"r", "e", "s">>>>, <<>>),
                 Step(<<"b", "1">>, "print_msg", <<<<<<"x">>, <<"'", "k", "'">>>>>>, <<>>, <<<<"r", "e", "s">>>>, <<>>)>>]

\* A workflow whose second step names the workflow itself.
RecursivePipeline ==
    [pipeline_id |-> "rec",
     steps |-> <<Step(<<"r", "1">>, "print_msg", <<<<<<"x">>, <<"'", "k", "'">>>>>>, <<>>, <<<<"r", "e", "s">>>>, <<>>),
                 Step(<<"r", "2">>, "rec", <<<<<<"p">>, <<"$", "r", "1", ".", "r", "e", "s">>>>>>, <<>>, <<<<"r", "e", "s">>>>, <<>>),
                 Step(<<"r", "3">>, "print_msg", <<<<<<"x">>, <<"'", "k", "'">>>>>>, <<>>, <<<<"r", "e", "s">>>>, <<>>)>>]

\* Two workflows that name each other.
PingPipeline ==
    [pipeline_id |-> "ping",
     steps |-> <<Step(<<"q", "1">>, "pong", <<>>, <<>>, <<<<"r", "e", "s">>>>, <<>>)>>]

PongPipeline ==
    [pipeline_id |-> "pong",
     steps |-> <<Step(<<"q", "2">>, "ping", <<>>, <<>>, <<>>, <<>>)>>]

\* The registry whose spec cache holds the workflows that lead back to
\* themselves.
RecursiveRegistry ==
    [tools |-> <<PrintMsg(FALSE, {})>>,
     cached_specs |-> <<MemoPipeline, RecursivePipeline, PingPipeline, PongPipeline>>,
     executable_cache |-> {}]

\* The registry with the same tool whose spec cache holds none of them.
PlainRegistry ==
    [tools |-> <<PrintMsg(FALSE, {})>>, cached_specs |-> <<MemoPipeline>>,
     executable_cache |-> {}]

\* The registries: one tool, pure or not in each way, whose executable can be
\* loaded; and the deterministic tool with each way its loading fails.
Registries ==
    {[tools |-> <<[PrintMsg(d[1], d[2]) EXCEPT !.exe = d[3]]>>,
      cached_specs |-> <<MemoPipeline>>, executable_cache |-> {}] :
        d \in {<<TRUE, {}, "ok">>, <<FALSE, {}, "ok">>, <<FALSE, {"pure"}, "ok">>,
               <<FALSE, {"idempotent"}, "ok">>, <<TRUE, {}, "missing">>,
               <<TRUE, {}, "no_entry">>, <<TRUE, {}, "not_callable">>}}

\* A registered tool that is not pure and can be loaded.
Tool(tool_id, template_id, name) ==
    [tool_id |-> tool_id, template_id |-> template_id, name |-> name,
     deterministic |-> FALSE, semantic_tags |-> {}, exe |-> "ok"]

\* seq back to front
Reverse(seq) == [i \in 1..Len(seq) |-> seq[Len(seq) + 1 - i]]

\* The tools ResolvePipeline is run against, in one directory order.
ResolveTools ==
    <<Tool("t1", "tpl", "f"), Tool("t2", "tpl", "g"), Tool("t3", "other", "tpl"),
      Tool("t4", "memo", "h"), Tool("t5", "y", "g"), PrintMsg(FALSE, {})>>

\* The same registry entries listed by root.iterdir() in two orders.
ResolveRegistries ==
    {[tools |-> tools, cached_specs |-> <<MemoPipeline>>, executable_cache |-> {}] :
        tools \in {ResolveTools, Reverse(ResolveTools)}}

\* The registry and the workflow of a behaviour.
Scenarios ==
    (Registries \X Workflows) \cup (ResolveRegistries \X {ResolvePipeline, UnknownPipeline})
        \cup ({r \in Registries : r.tools[1].exe = "ok" /\ r.tools[1].semantic_tags = {}}
                 \X {BindPipeline, ForwardPipeline})
        \cup ({RecursiveRegistry, PlainRegistry} \X {RecursivePipeline, PingPipeline})

One == PyInt(<<"1">>)
OneStr == PyStr(<<"1">>)
Zero == PyInt(<<"0">>)
A == PyStr(<<"a">>)
B == PyStr(<<"b">>)
C == PyStr(<<"c">>)

\* The initial contexts execute is called with, per workflow.
InputsOf(comp_spec) ==
    CASE comp_spec = TestPipeline ->
           {PyDict(<<<<<<"d", "o", "_", "i", "t">>, PyTrue>>>>), PyDict(<<<<<<"d", "o", "_", "i", "t">>, PyFalse>>>>), PyDict(<<>>),
            PyDict(<<<<<<"d", "o", "_", "i", "t">>, PyFalse>>, <<<<"s", "t", "e", "p", "1">>, A>>>>)}
      [] comp_spec = MemoPipeline ->
           {PyDict(<<<<<<"v">>, p[1]>>, <<<<"w">>, p[2]>>>>) :
               p \in {<<One, One>>, <<One, OneStr>>, <<One, Zero>>}}
      [] comp_spec = LoopPipeline ->
           {PyDict(<<<<<<"i", "t", "e", "m", "s">>, l>>>>) :
               l \in {PyList(<<A, B, C>>), PyList(<<A, A>>), PyList(<<>>), A, One}}
             \cup {PyDict(<<>>),
                   PyDict(<<<<<<"i", "t", "e", "m", "s">>, PyList(<<B, PyNone, C>>)>>, <<<<"i", "t", "e", "m">>, A>>>>)}
      [] comp_spec = OuterPipeline ->
           {PyDict(<<<<<<"p">>, v>>>>) : v \in {OneStr, PyStr(<<"k">>)}}
      [] comp_spec \in {UnknownPipeline, ResolvePipeline, ForwardPipeline,
                         RecursivePipeline, PingPipeline} -> {PyDict(<<>>)}
      [] comp_spec = BindPipeline ->
           {PyDict(<<<<<<"d", "o", "_", "i", "t">>, d>>>> \o p) :
               d \in {PyTrue, PyFalse},
               p \in {<<>>, <<<<<<"p">>, A>>>>, <<<<<<"p">>, PyDict(<<>>)>>>>,
                      <<<<<<"p">>, PyDict(<<<<<<"f">>, B>>>>)>>>>}}

\* What an executable does when invoked: it returns a value or raises.
ToolRaise == Raise("Exception", <<>>, "")
ToolOutcomes == {PyStr(<<"r", "1">>), PyStr(<<"r", "2">>), ToolRaise}

(***************************************************************************)
(* Actions of WorkflowEngine.execute                                       *)
(***************************************************************************)

Idle == [status |-> "idle", inputs |-> PyNone, result |-> PyNone, at |-> <<>>]

\* The cache key of the current step and what the execution cache holds for it.
CacheKey(f) ==
    CHOOSE key \in {HashInputs(tool_id, kwargs) :
                       tool_id \in {ToolIdToRun(f)}, kwargs \in {Kwargs(f)}} : TRUE
CacheHit(f) == \E e \in cache : e[1] = CacheKey(f)
Cached(f) == (CHOOSE e \in cache : e[1] = CacheKey(f))[2]

\* The top record can run step logic on a registered tool.
ToolReady(f) ==
    /\ ReadyToRun(f)
    /\ StepLogicError(f) = <<>>
    /\ FindWorkflowById(registry, CurStep(f).tool_id) = <<>>

\* Lines 131-134: the exception of step logic when the executable of its
\* tool is needed (no cache hit) and cannot be had, <<>> when there is none.
LoadFailure(f) ==
    IF ~ToolReady(f) \/ (IsPure(Load(registry, ToolIdToRun(f))) /\ CacheHit(f)) THEN <<>>
    ELSE IF GetExecutable(registry, ToolIdToRun(f)).out = "FileNotFoundError"
        THEN <<Raise("FileNotFoundError", <<>>, ToolIdToRun(f))>>
    ELSE IF GetExecutable(registry, ToolIdToRun(f)).out = "None"
        THEN <<Raise("RuntimeError", CurStep(f).id, ToolIdToRun(f))>>
    ELSE <<>>

\* The exception that leaves execute from the top record without any
\* executable being invoked, <<>> when there is none.
PendingError(f) ==
    IF ~AtStep(f) \/ f.in_loop \/ ~ConditionHolds(f) \/ CurStep(f).foreach = <<>>
    THEN (IF ~ReadyToRun(f) THEN <<>>
          ELSE IF StepLogicError(f) # <<>> THEN StepLogicError(f)
          ELSE LoadFailure(f))
    ELSE LET loop_collection == ResolveValue(CurStep(f).foreach, f.context, PyNone)
         IN  IF IsRaise(loop_collection) THEN <<loop_collection>>
             ELSE IF loop_collection.t # "list" THEN <<Raise("TypeError", CurStep(f).id, "")>>
             ELSE <<>>

\* self._execution_cache[cache_key] = result
CachePut(c, key, result) == {e \in c : e[1] # key} \cup {<<key, result>>}

\* One run of step logic on a tool, as the log records it: the step, the
\* tool, the keyword arguments, what it gave and whether the executable ran.
Invocation(f, out, invoked) ==
    [step |-> CurStep(f).id, tool |-> ToolIdToRun(f), kwargs |-> Kwargs(f),
     result |-> out, invoked |-> invoked]

\* engine.execute(comp_spec, inputs) called by the engine's user.
Execute(inputs) ==
    /\ mode = "engine"
    /\ stack = <<>>
    /\ calls < MaxCalls
    /\ stack' = <<NewFrame(workflow, inputs)>>
    /\ outcome' = [status |-> "running", inputs |-> inputs, result |-> PyNone, at |-> <<>>]
    /\ log' = <<>>
    /\ calls' = calls + 1
    /\ UNCHANGED <<mode, registry, workflow, cache, reg, last, ops>>

\* Lines 156-159: the condition is false, the step is skipped.
SkipStep ==
    /\ stack # <<>>
    /\ AtStep(Top) /\ ~Top.in_loop /\ ~ConditionHolds(Top)
    /\ stack' = [stack EXCEPT ![Len(stack)].pc = @ + 1]
    /\ UNCHANGED <<mode, registry, workflow, cache, outcome, log, calls, reg, last, ops>>

\* Lines 162-167: the foreach target resolved to a list, the loop begins.
ForeachEnter ==
    /\ stack # <<>>
    /\ AtStep(Top) /\ ~Top.in_loop /\ ConditionHolds(Top)
    /\ CurStep(Top).foreach # <<>>
    /\ PendingError(Top) = <<>>
    /\ stack' = [stack EXCEPT ![Len(stack)] =
                    [@ EXCEPT !.in_loop = TRUE,
                              !.loop_collection =
                                  ResolveValue(CurStep(Top).foreach, Top.context, PyNone).items,
                              !.k = 1,
                              !.step_outputs = <<>>]]
    /\ UNCHANGED <<mode, registry, workflow, cache, outcome, log, calls, reg, last, ops>>

\* Mutant: when the loop is over it starts again at the first item.
ForeachExit_Restart ==
    /\ stack # <<>>
    /\ AtStep(Top) /\ Top.in_loop /\ Top.k > Len(Top.loop_collection)
    /\ stack' = [stack EXCEPT ![Len(stack)] = [@ EXCEPT !.k = 1, !.step_outputs = <<>>]]
    /\ UNCHANGED <<mode, registry, workflow, cache, outcome, log, calls, reg, last, ops>>

\* Lines 182-186: the loop is over, the collected results are stored.
ForeachExit ==
    /\ stack # <<>>
    /\ AtStep(Top) /\ Top.in_loop /\ Top.k > Len(Top.loop_collection)
    /\ stack' = [stack EXCEPT ![Len(stack)] =
                    [@ EXCEPT !.context = StoreOutput(@, CurStep(Top), PyList(Top.step_outputs)),
                              !.in_loop = FALSE,
                              !.pc = @ + 1]]
    /\ UNCHANGED <<mode, registry, workflow, cache, outcome, log, calls, reg, last, ops>>

\* Mutant: a workflow that is already running is not entered again, the
\* step gets None.
StepNested_CycleGuard ==
    /\ stack # <<>>
    /\ ReadyToRun(Top)
    /\ StepLogicError(Top) = <<>>
    /\ FindWorkflowById(registry, CurStep(Top).tool_id) # <<>>
    /\ Len(stack) < MaxDepth
    /\ stack' = IF \E d \in 1..Len(stack) :
                       stack[d].comp_spec.pipeline_id = CurStep(Top).tool_id
                THEN [stack EXCEPT ![Len(stack)] = Deliver(Top, PyNone)]
                ELSE Append(stack, NewFrame(FindWorkflowById(registry, CurStep(Top).tool_id)[1],
                                            Kwargs(Top)))
    /\ UNCHANGED <<mode, registry, workflow, cache, outcome, log, calls, reg, last, ops>>

\* Lines 94-103: the step's tool_id names a cached workflow, execute recurses.
StepNested ==
    /\ stack # <<>>
    /\ ReadyToRun(Top)
    /\ StepLogicError(Top) = <<>>
    /\ FindWorkflowById(registry, CurStep(Top).tool_id) # <<>>
    /\ Len(stack) < MaxDepth
    /\ stack' = Append(stack, NewFrame(FindWorkflowById(registry, CurStep(Top).tool_id)[1],
                                       Kwargs(Top)))
    /\ UNCHANGED <<mode, registry, workflow, cache, outcome, log, calls, reg, last, ops>>

\* Lines 126-129: a pure tool's key is in the cache, nothing is invoked.
StepCacheHit ==
    /\ stack # <<>>
    /\ ToolReady(Top)
    /\ IsPure(Load(registry, ToolIdToRun(Top))) /\ CacheHit(Top)
    /\ stack' = [stack EXCEPT ![Len(stack)] = Deliver(Top, Cached(Top))]
    /\ log' = Append(log, Invocation(Top, Cached(Top), FALSE))
    /\ UNCHANGED <<mode, registry, workflow, cache, outcome, calls, reg, last, ops>>

\* The top record is about to invoke the executable of its tool.
InvokeReady(f) ==
    /\ ToolReady(f)
    /\ ~(IsPure(Load(registry, ToolIdToRun(f))) /\ CacheHit(f))
    /\ GetExecutable(registry, ToolIdToRun(f)).out = "func"

\* Lines 131-142: the executable is invoked and returns.
StepInvoke ==
    /\ stack # <<>>
    /\ InvokeReady(Top)
    /\ \E out \in ToolOutcomes :
        /\ ~IsRaise(out)
        /\ log' = Append(log, Invocation(Top, out, TRUE))
        /\ cache' = IF IsPure(Load(registry, ToolIdToRun(Top)))
                    THEN CachePut(cache, CacheKey(Top), out)
                    ELSE cache
        /\ stack' = [stack EXCEPT ![Len(stack)] = Deliver(Top, out)]
    /\ registry' = [registry EXCEPT !.executable_cache =
                       GetExecutable(registry, ToolIdToRun(Top)).executable_cache]
    /\ UNCHANGED <<mode, workflow, outcome, calls, reg, last, ops>>

\* Mutant: the exception is swallowed and the step goes on with None.
StepInvokeRaises_Swallowed ==
    /\ stack # <<>>
    /\ InvokeReady(Top)
    /\ log' = Append(log, Invocation(Top, ToolRaise, TRUE))
    /\ stack' = [stack EXCEPT ![Len(stack)] = Deliver(Top, PyNone)]
    /\ UNCHANGED <<mode, registry, workflow, cache, outcome, calls, reg, last, ops>>

\* Lines 137, 178-180, 197-199: the executable raises; every active execute
\* re-raises.
StepInvokeRaises ==
    /\ stack # <<>>
    /\ InvokeReady(Top)
    /\ \E out \in ToolOutcomes :
        /\ IsRaise(out)
        /\ log' = Append(log, Invocation(Top, out, TRUE))
        /\ outcome' = [outcome EXCEPT !.status = "raised", !.result = out, !.at = stack]
    /\ stack' = <<>>
    /\ registry' = [registry EXCEPT !.executable_cache =
                       GetExecutable(registry, ToolIdToRun(Top)).executable_cache]
    /\ UNCHANGED <<mode, workflow, cache, calls, reg, last, ops>>

\* Mutant: the failing step is passed over and the loop goes on.
StepRaises_SkipsStep ==
    /\ stack # <<>>
    /\ PendingError(Top) # <<>>
    /\ stack' = [stack EXCEPT ![Len(stack)] = [@ EXCEPT !.pc = @ + 1, !.in_loop = FALSE]]
    /\ UNCHANGED <<mode, registry, workflow, cache, outcome, log, calls, reg, last, ops>>

\* An exception raised before any invocation (a binding, a foreach target,
\* an unknown tool, an executable that cannot be loaded) leaves execute.
StepRaises ==
    /\ stack # <<>>
    /\ PendingError(Top) # <<>>
    /\ outcome' = [outcome EXCEPT !.status = "raised", !.result = PendingError(Top)[1],
                                  !.at = stack]
    /\ stack' = <<>>
    /\ UNCHANGED <<mode, registry, workflow, cache, log, calls, reg, last, ops>>

\* Lines 207-208: the loop over the steps is over, execute returns its context.
Return ==
    /\ stack # <<>>
    /\ ~AtStep(Top)
    /\ IF Len(stack) = 1
       THEN /\ stack' = <<>>
            /\ outcome' = [outcome EXCEPT !.status = "returned", !.result = Top.context]
       ELSE /\ stack' = [i \in 1..(Len(stack) - 1) |->
                            IF i = Len(stack) - 1 THEN Deliver(stack[i], Top.context)
                            ELSE stack[i]]
            /\ UNCHANGED outcome
    /\ UNCHANGED <<mode, registry, workflow, cache, log, calls, reg, last, ops>>

Init ==
    /\ mode = "engine"
    /\ \E scenario \in Scenarios : registry = scenario[1] /\ workflow = scenario[2]
    /\ cache = {}
    /\ stack = <<>>
    /\ outcome = Idle
    /\ log = <<>>
    /\ calls = 0
    /\ reg = <<>>
    /\ last = <<>>
    /\ ops = 0

Next ==
    \/ \E inputs \in InputsOf(workflow) : Execute(inputs)
    \/ SkipStep
    \/ ForeachEnter
    \/ ForeachExit
    \/ StepNested
    \/ StepCacheHit
    \/ StepInvoke
    \/ StepInvokeRaises
    \/ StepRaises
    \/ Return

Spec == Init /\ [][Next]_vars

\* Lines 92-142, 162-180: one run of the bindings and of _run_step_logic for
\* the current step or foreach item, whatever its end.
StepLogic ==
    \/ StepNested
    \/ StepCacheHit
    \/ StepInvoke
    \/ StepInvokeRaises
    \/ StepRaises

\* The top record stands before a run of step logic: ENABLED <<StepLogic>>_vars.
AtStepLogic ==
    /\ stack # <<>>
    /\ ReadyToRun(Top) \/ PendingError(Top) # <<>>
    /\ ~(/\ ReadyToRun(Top) /\ StepLogicError(Top) = <<>>
         /\ FindWorkflowById(registry, CurStep(Top).tool_id) # <<>>
         /\ Len(stack) >= MaxDepth)

\* WF_vars(StepLogic), with its enabling condition written as AtStepLogic:
\* a call that stands before step logic runs it, and an invoked executable
\* returns or raises.
StepLogicRuns == []<>(~AtStepLogic) \/ []<><<StepLogic>>_vars

\* The engine is one sequential thread: while a call is active its next
\* statement is executed.
SpecLive ==
    /\ Init /\ [][Next]_vars
    /\ WF_vars(SkipStep) /\ WF_vars(ForeachEnter) /\ WF_vars(ForeachExit) /\ WF_vars(Return)
    /\ StepLogicRuns

(***************************************************************************)
(* Claims about WorkflowEngine.execute, checked under Spec                 *)
(***************************************************************************)

\* A tool is pure by its contract: the deterministic flag, or a semantic
\* tag "pure" or "idempotent".
ContractPure(tool_id) ==
    LET spec == Load(registry, tool_id)
    IN  spec.deterministic \/ spec.semantic_tags \cap {"pure", "idempotent"} # {}

\* Two keyword-argument mappings hold the same names with the same values.
SameParams(k1, k2) ==
    /\ Keys(k1) = Keys(k2)
    /\ \A n \in Keys(k1) : Get(k1, n) = Get(k2, n)

\* The entries of the log whose executable was invoked.
Invoked == {i \in 1..Len(log) : log[i].invoked}

\* The log entries of one step, in order.
EntriesOf(step_id) ==
    LET Test(e) == e.step = step_id
    IN  SelectSeq(log, Test)

\* C1: within one run, a pure tool reached twice with identical resolved
\* parameters is invoked at most once and the second call returns the first
\* call's result; a tool that is not pure is invoked on every call.
C1_PureToolInvokedAtMostOnce ==
    mode = "engine" =>
        \A i, j \in 1..Len(log) :
            /\ (i < j /\ log[i].tool = log[j].tool /\ ContractPure(log[i].tool)
                      /\ SameParams(log[i].kwargs, log[j].kwargs))
                   => (~log[j].invoked /\ log[j].result = log[i].result)
            /\ ~ContractPure(log[i].tool) => log[i].invoked

\* C1's case: a pure tool was invoked, then reached again with the same
\* parameters and served from the cache.
C1_Witness ==
    /\ mode = "engine"
    /\ \E i, j \in 1..Len(log) :
          /\ i < j /\ log[i].tool = log[j].tool /\ ContractPure(log[i].tool)
          /\ SameParams(log[i].kwargs, log[j].kwargs)
          /\ log[i].kwargs.kv # log[j].kwargs.kv
          /\ log[i].invoked /\ ~log[j].invoked

\* C2: every execute call on the conditional test workflow, with its
\* deterministic tool, invokes the tool once per executed step: twice when
\* do_it is true and once when it is false, also for a later call on the
\* same engine.
C2_OneInvocationPerExecutedStep ==
    (mode = "engine" /\ workflow = TestPipeline /\ outcome.status = "returned"
       /\ Load(registry, "print_msg").deterministic) =>
        /\ Get(outcome.inputs, <<"d", "o", "_", "i", "t">>) = PyTrue => Cardinality(Invoked) = 2
        /\ Get(outcome.inputs, <<"d", "o", "_", "i", "t">>) = PyFalse => Cardinality(Invoked) = 1

\* C3: a step gated on "$do_it" has an entry in the final context when do_it
\* is true, and none (with no run of its tool) when do_it is false; the
\* unconditional step has an entry in both cases.
C3_ConditionalStep ==
    (mode = "engine" /\ workflow = TestPipeline /\ outcome.status = "returned") =>
        /\ HasKey(outcome.result, <<"s", "t", "e", "p", "1">>)
        /\ Get(outcome.inputs, <<"d", "o", "_", "i", "t">>) = PyTrue => HasKey(outcome.result, <<"s", "t", "e", "p", "2">>)
        /\ Get(outcome.inputs, <<"d", "o", "_", "i", "t">>) = PyFalse =>
              /\ ~HasKey(outcome.result, <<"s", "t", "e", "p", "2">>)
              /\ EntriesOf(<<"s", "t", "e", "p", "2">>) = <<>>

\* C3's case: a run with do_it true returned with the gated step's entry.
C3_Witness ==
    /\ mode = "engine" /\ workflow = TestPipeline /\ outcome.status = "returned"
    /\ Get(outcome.inputs, <<"d", "o", "_", "i", "t">>) = PyTrue
    /\ HasKey(outcome.result, <<"s", "t", "e", "p", "2">>)
    /\ calls = 2

\* The context of the outermost execute: its record while it runs, what it
\* returned afterwards.
OuterContext ==
    IF stack # <<>> THEN stack[1].context
    ELSE IF outcome.status = "returned" THEN outcome.result
    ELSE PyDict(<<>>)

\* The foreach step of LoopPipeline has stored its results.
LoopStored ==
    /\ mode = "engine" /\ workflow = LoopPipeline
    /\ HasKey(OuterContext, <<"e", "a", "c", "h">>)

LoopItems == Get(OuterContext, <<"i", "t", "e", "m", "s">>).items

\* The foreach step stored one entry: its first output holds the results of
\* its runs of step logic, in order, one per item.
LoopResultsInOrder ==
    LET E == EntriesOf(<<"e", "a", "c", "h">>)
    IN  /\ Len(E) = Len(LoopItems)
        /\ Get(OuterContext, <<"e", "a", "c", "h">>) =
               PyDict(<<<<<<"o", "u", "t">>, PyList([m \in 1..Len(E) |-> E[m].result])>>>>)

EarlierSameKey(i) ==
    \E j \in 1..(i - 1) :
        HashInputs(log[j].tool, log[j].kwargs) = HashInputs(log[i].tool, log[i].kwargs)

C10_RaiseAbortsWorkflow ==
    mode = "engine" =>
        /\ \A i \in 1..Len(log) :
              IsRaise(log[i].result) =>
                  /\ i = Len(log)
                  /\ outcome.status = "raised"
                  /\ outcome.result = log[i].result
        /\ outcome.status = "raised" =>
              /\ stack = <<>>
              /\ \A d \in 1..Len(outcome.at) :
                    LET id == CurStep(outcome.at[d]).id
                        inputs == IF d = 1 THEN outcome.inputs ELSE Kwargs(outcome.at[d - 1])
                    IN  HasKey(outcome.at[d].context, id) =>
                           /\ HasKey(inputs, id)
                           /\ Get(outcome.at[d].context, id) = Get(inputs, id)

\* C10's case: an invocation raised inside a foreach loop with items left
\* and a step after the loop.
C10_Witness ==
    /\ mode = "engine" /\ outcome.status = "raised"
    /\ log # <<>> /\ IsRaise(log[Len(log)].result)
    /\ LET f == outcome.at[Len(outcome.at)]
       IN  /\ f.in_loop /\ f.k > 1 /\ f.k < Len(f.loop_collection)
           /\ f.pc < Len(Steps(f))

(***************************************************************************)
(* _evaluate_condition and _resolve_value as functions: SpecCond           *)
(***************************************************************************)

\* The state of the variables a behaviour does not use.
NoRegistry == [tools |-> <<>>, cached_specs |-> <<>>, executable_cache |-> {}]
NoWorkflow == [pipeline_id |-> "", steps |-> <<>>]

\* Operand texts: variables, a step field, literals.
Operands == {<<"$", "x">>, <<"$", "s", ".", "f">>, <<"k">>, <<"1">>, <<"'", "k", "'">>, <<"T", "r", "u", "e">>}

\* Condition texts: one operand, or two around an operator.
Conditions ==
    Operands \cup {<<>>, <<"$", "d", "o", "_", "i", "t">>, <<"$", "x", " ", "=", "=", " ", "$", "s", ".", "f", " ", "!", "=", " ", "k">>}
      \cup {l \o op \o r : l \in Operands, r \in Operands,
                           op \in {<<" ", "=", "=", " ">>, <<" ", "!", "=", " ">>, <<"=", "=">>}}

\* Contexts: x absent, falsy or truthy; s absent, a mapping or not a mapping.
CondContexts ==
    {PyDict(<<>>),
     PyDict(<<<<<<"x">>, PyList(<<>>)>>>>),
     PyDict(<<<<<<"x">>, PyList(<<Zero>>)>>>>),
     PyDict(<<<<<<"x">>, PyDict(<<>>)>>>>),
     PyDict(<<<<<<"x">>, One>>>>),
     PyDict(<<<<<<"x">>, OneStr>>, <<<<"s">>, PyDict(<<<<<<"f">>, PyStr(<<"k">>)>>>>)>>>>),
     PyDict(<<<<<<"x">>, Zero>>, <<<<"s">>, PyStr(<<"k">>)>>>>),
     PyDict(<<<<<<"x">>, PyStr(<<>>)>>, <<<<"s">>, PyDict(<<>>)>>>>),
     PyDict(<<<<<<"x">>, PyTrue>>, <<<<"d", "o", "_", "i", "t">>, PyFalse>>>>),
     PyDict(<<<<<<"x">>, PyStr(<<"k">>)>>, <<<<"d", "o", "_", "i", "t">>, PyTrue>>>>)}

InitCond ==
    /\ mode = "cond"
    /\ registry = NoRegistry
    /\ workflow = NoWorkflow
    /\ cache = {}
    /\ stack = <<>>
    /\ outcome = Idle
    /\ log = <<>>
    /\ calls = 0
    /\ reg = <<>>
    /\ \E condition \in Conditions, context \in CondContexts :
          last = [condition |-> condition, context |-> context, done |-> FALSE, result |-> FALSE]
    /\ ops = 0

\* self._evaluate_condition(step.if_condition, context)
Evaluate ==
    /\ mode = "cond"
    /\ ~last.done
    /\ last' = [last EXCEPT !.done = TRUE,
                            !.result = EvaluateCondition(last.condition, last.context)]
    /\ ops' = ops + 1
    /\ UNCHANGED <<mode, registry, workflow, cache, stack, outcome, log, calls, reg>>

NextCond == Evaluate

SpecCond == InitCond /\ [][NextCond]_vars

\* The operands of a condition: the two sides of its first "==", else of its
\* first "!=", else the whole text.
OperandsOf(condition) ==
    IF Contains(condition, <<"=", "=">>)
    THEN {Strip(SplitOnce(condition, <<"=", "=">>)[1]), Strip(SplitOnce(condition, <<"=", "=">>)[2])}
    ELSE IF Contains(condition, <<"!", "=">>)
    THEN {Strip(SplitOnce(condition, <<"!", "=">>)[1]), Strip(SplitOnce(condition, <<"!", "=">>)[2])}
    ELSE {condition}

\* An operand that cannot be resolved: a $step.field reference whose step
\* is not a key of the context or is not a mapping there.
Unresolvable(text, context) ==
    /\ StartsWith(text, <<"$">>)
    /\ Contains(Tail(text), <<".">>)
    /\ LET step_id == SplitOnce(Tail(text), <<".">>)[1]
       IN  ~HasKey(context, step_id) \/ Get(context, step_id).t # "dict"

\* C9: when an operand of the condition cannot be resolved,
\* _evaluate_condition returns false (and the gated step is skipped).
C9_UnresolvableConditionIsFalse ==
    (mode = "cond" /\ last.done
       /\ \E text \in OperandsOf(last.condition) : Unresolvable(text, last.context))
        => last.result = FALSE

(***************************************************************************)
(* ToolRegistry.resolve_id: SpecId                                         *)
(***************************************************************************)

\* json.dumps of a string: quoted, with quotes and backslashes escaped.
RECURSIVE JsonEscape(_)
JsonEscape(s) ==
    IF s = <<>> THEN <<>>
    ELSE (IF s[1] \in {"\"", "\\"} THEN <<"\\", s[1]>> ELSE <<s[1]>>) \o JsonEscape(Tail(s))

JsonString(s) == <<"\"">> \o JsonEscape(s) \o <<"\"">>

JsonBool(b) == IF b THEN <<"t", "r", "u", "e">> ELSE <<"f", "a", "l", "s", "e">>

\* json.dumps of a list of strings.
JsonList(items) ==
    <<"[">> \o Join([i \in 1..Len(items) |-> JsonString(items[i])], <<",", " ">>) \o <<"]">>

\* Mutant: the members are written in insertion order (no sort_keys).
JsonObject_Unsorted(members) ==
    <<"{">> \o Join([i \in 1..Len(members) |->
                       JsonString(members[i][1]) \o <<":", " ">> \o members[i][2]],
                    <<",", " ">>) \o <<"}">>

\* json.dumps(..., sort_keys=True) of an object whose members are
\* <<name, rendered value>> pairs; the layout of indent=2 is left out.
JsonObject(members) ==
    LET sorted == SortPairs(members)
    IN  <<"{">> \o Join([i \in 1..Len(sorted) |->
                           JsonString(sorted[i][1]) \o <<":", " ">> \o sorted[i][2]],
                        <<",", " ">>) \o <<"}">>

\* json.dumps of a Dict[str, str], given in insertion order.
JsonStrDict(d) == JsonObject([i \in 1..Len(d) |-> <<d[i][1], JsonString(d[i][2])>>])

\* ToolSpec.to_json(): asdict, then json.dumps with sort_keys.
ToJson(spec) ==
    JsonObject(<<<<<<"n", "a", "m", "e">>, JsonString(spec.name)>>,
                 <<<<"s", "i", "g", "n", "a", "t", "u", "r", "e">>, JsonString(spec.signature)>>,
                 <<<<"d", "o", "c", "s", "t", "r", "i", "n", "g">>, JsonString(spec.docstring)>>,
                 <<<<"i", "n", "p", "u", "t", "s">>, JsonStrDict(spec.inputs)>>,
                 <<<<"o", "u", "t", "p", "u", "t", "s">>, JsonStrDict(spec.outputs)>>,
                 <<<<"f", "a", "i", "l", "u", "r", "e", "_", "m", "o", "d", "e", "s">>, JsonString(spec.failure_modes)>>,
                 <<<<"d", "e", "t", "e", "r", "m", "i", "n", "i", "s", "t", "i", "c">>, JsonBool(spec.deterministic)>>,
                 <<<<"i", "m", "p", "o", "r", "t", "s">>, JsonList(spec.imports)>>,
                 <<<<"s", "e", "m", "a", "n", "t", "i", "c", "_", "t", "a", "g", "s">>, JsonList(spec.semantic_tags)>>>>)

\* _hash_payload(*parts): SHA-256 of the parts' bytes one after the other.
\* The digest is taken to be collision-free: it stands for the bytes hashed.
RECURSIVE HashPayload(_)
HashPayload(parts) ==
    IF parts = <<>> THEN <<>> ELSE parts[1] \o HashPayload(Tail(parts))

\* ToolRegistry.resolve_id(spec, source_code)
ResolveId(spec, source_code) == HashPayload(<<ToJson(spec), source_code>>)

\* The contracts and source texts resolve_id is applied to.  Texts hold the
\* characters that delimit JSON, so that the two hashed parts can run into
\* each other.
ToolSpecs ==
    {[name |-> name, signature |-> <<"f", "(", ")">>, docstring |-> docstring, inputs |-> inputs,
      outputs |-> <<>>, failure_modes |-> <<>>, deterministic |-> deterministic,
      imports |-> imports, semantic_tags |-> <<>>] :
        name \in {<<"f">>, <<"f", "\"", "}">>},
        docstring \in {<<>>, <<"}">>},
        inputs \in {<<>>,
                    <<<<<<"x">>, <<"p">>>>, <<<<"y">>, <<"q">>>>>>,
                    <<<<<<"y">>, <<"q">>>>, <<<<"x">>, <<"p">>>>>>,
                    <<<<<<"x">>, <<"q">>>>>>},
        deterministic \in BOOLEAN,
        imports \in {<<<<"o", "s">>>>}}

SourceCodes == {<<>>, <<"}">>, <<"x">>, <<"\"", "}", "x">>}

InitId ==
    /\ mode = "id"
    /\ registry = NoRegistry
    /\ workflow = NoWorkflow
    /\ cache = {}
    /\ stack = <<>>
    /\ outcome = Idle
    /\ log = <<>>
    /\ calls = 0
    /\ reg = <<>>
    /\ \E s1 \in ToolSpecs, s2 \in ToolSpecs, c1 \in SourceCodes, c2 \in SourceCodes :
          last = [spec1 |-> s1, code1 |-> c1, spec2 |-> s2, code2 |-> c2,
                  done |-> FALSE, id1 |-> <<>>, id2 |-> <<>>]
    /\ ops = 0

\* registry.resolve_id applied to the two pairs.
ResolveIds ==
    /\ mode = "id"
    /\ ~last.done
    /\ last' = [last EXCEPT !.done = TRUE,
                            !.id1 = ResolveId(last.spec1, last.code1),
                            !.id2 = ResolveId(last.spec2, last.code2)]
    /\ ops' = ops + 1
    /\ UNCHANGED <<mode, registry, workflow, cache, stack, outcome, log, calls, reg>>

NextId == ResolveIds

SpecId == InitId /\ [][NextId]_vars

\* Two mappings given in insertion order are equal as Python dicts.
DictEq(d1, d2) == {d1[i] : i \in 1..Len(d1)} = {d2[i] : i \in 1..Len(d2)}

\* Two contracts are equal field by field.
ToolSpecEq(s1, s2) ==
    /\ s1.name = s2.name /\ s1.signature = s2.signature /\ s1.docstring = s2.docstring
    /\ DictEq(s1.inputs, s2.inputs) /\ DictEq(s1.outputs, s2.outputs)
    /\ s1.failure_modes = s2.failure_modes /\ s1.deterministic = s2.deterministic
    /\ s1.imports = s2.imports /\ s1.semantic_tags = s2.semantic_tags

\* C5: resolve_id gives two (spec, source code) pairs the same id exactly
\* when they are equal field by field, whatever the insertion order of the
\* contract's mappings.
C5_ResolveIdIsContentAddress ==
    (mode = "id" /\ last.done) =>
        ((ToolSpecEq(last.spec1, last.spec2) /\ last.code1 = last.code2)
            <=> last.id1 = last.id2)

\* C5's case: two equal contracts whose inputs were inserted in different
\* orders, with the same source, got the same id.
C5_Witness ==
    /\ mode = "id" /\ last.done
    /\ last.spec1 # last.spec2 /\ ToolSpecEq(last.spec1, last.spec2)
    /\ last.code1 = last.code2
    /\ last.id1 = last.id2

(***************************************************************************)
(* ToolRegistry.register and load: SpecRegistry                            *)
(*   reg.docs: tool_id -> the metadata.json document of <root>/<tool_id>   *)
(*   reg.written, reg.writes: the metadata last handed to register under   *)
(*   each tool_id and the number of times (history, not program state)     *)
(*   A tool id is a content hash: it names one directory of the root.      *)
(***************************************************************************)

\* Registry operations in one behaviour.
MaxOps == 3

\* s.split(sep) for a one-character separator: every part.
RECURSIVE SplitAll(_, _)
SplitAll(s, sep) ==
    IF ~Contains(s, <<sep>>) THEN <<s>>
    ELSE <<SplitOnce(s, <<sep>>)[1]>> \o SplitAll(SplitOnce(s, <<sep>>)[2], sep)

\* pathlib.Path(text): rooted or not, and its components ("" and "." dropped).
PathOf(text) ==
    LET Named(part) == part # <<>> /\ part # <<".">>
    IN  [t |-> "Path", root |-> StartsWith(text, <<"/">>),
         parts |-> SelectSeq(SplitAll(text, "/"), Named)]

\* str(path)
PathStr(path) ==
    IF path.parts = <<>> THEN (IF path.root THEN <<"/">> ELSE <<".">>)
    ELSE (IF path.root THEN <<"/">> ELSE <<>>) \o Join(path.parts, <<"/">>)

\* asdict(spec): the contract as a dict.
SpecAsDict(spec) ==
    PyDict(<<<<<<"n", "a", "m", "e">>, spec.name>>, <<<<"s", "i", "g", "n", "a", "t", "u", "r", "e">>, spec.signature>>,
             <<<<"d", "o", "c", "s", "t", "r", "i", "n", "g">>, spec.docstring>>, <<<<"i", "n", "p", "u", "t", "s">>, spec.inputs>>,
             <<<<"o", "u", "t", "p", "u", "t", "s">>, spec.outputs>>, <<<<"f", "a", "i", "l", "u", "r", "e", "_", "m", "o", "d", "e", "s">>, spec.failure_modes>>,
             <<<<"d", "e", "t", "e", "r", "m", "i", "n", "i", "s", "t", "i", "c">>, spec.deterministic>>, <<<<"i", "m", "p", "o", "r", "t", "s">>, spec.imports>>,
             <<<<"s", "e", "m", "a", "n", "t", "i", "c", "_", "t", "a", "g", "s">>, spec.semantic_tags>>>>)

\* ToolMetadata.to_dict(): asdict, with the three paths as strings.
ToDict(metadata) ==
    PyDict(<<<<<<"t", "o", "o", "l", "_", "i", "d">>, metadata.tool_id>>, <<<<"v", "e", "r", "s", "i", "o", "n">>, metadata.version>>,
             <<<<"c", "r", "e", "a", "t", "e", "d", "_", "a", "t">>, metadata.created_at>>, <<<<"s", "p", "e", "c">>, SpecAsDict(metadata.spec)>>,
             <<<<"s", "o", "u", "r", "c", "e", "_", "p", "a", "t", "h">>, PyStr(PathStr(metadata.source_path))>>,
             <<<<"t", "e", "s", "t", "s", "_", "p", "a", "t", "h">>, PyStr(PathStr(metadata.tests_path))>>,
             <<<<"t", "e", "s", "t", "_", "r", "e", "s", "u", "l", "t", "s", "_", "p", "a", "t", "h">>, PyStr(PathStr(metadata.test_results_path))>>,
             <<<<"d", "e", "p", "e", "n", "d", "e", "n", "c", "i", "e", "s">>, metadata.dependencies>>,
             <<<<"s", "e", "c", "u", "r", "i", "t", "y", "_", "p", "o", "l", "i", "c", "y">>, metadata.security_policy>>,
             <<<<"c", "a", "p", "a", "b", "i", "l", "i", "t", "y", "_", "p", "r", "o", "f", "i", "l", "e">>, metadata.capability_profile>>,
             <<<<"m", "o", "d", "e", "l">>, metadata.model>>, <<<<"t", "e", "m", "p", "l", "a", "t", "e", "_", "i", "d">>, metadata.template_id>>>>)

\* json.loads(json.dumps(value, sort_keys=True)): what a document holds
\* once written and read back; objects come back in key order.
RECURSIVE JsonRoundTrip(_)
JsonRoundTrip(v) ==
    CASE v.t = "dict" ->
           PyDict(SortPairs([i \in 1..Len(v.kv) |-> <<v.kv[i][1], JsonRoundTrip(v.kv[i][2])>>]))
      [] v.t = "list" -> PyList([i \in 1..Len(v.items) |-> JsonRoundTrip(v.items[i])])
      [] OTHER -> v

\* data.get(key, default)
GetOr(d, k, default) == IF HasKey(d, k) THEN Get(d, k) ELSE default

\* ToolSpec(**spec_data), after spec_data.setdefault("imports", []).
SpecFromDict(spec_data) ==
    [name |-> Get(spec_data, <<"n", "a", "m", "e">>), signature |-> Get(spec_data, <<"s", "i", "g", "n", "a", "t", "u", "r", "e">>),
     docstring |-> Get(spec_data, <<"d", "o", "c", "s", "t", "r", "i", "n", "g">>), inputs |-> Get(spec_data, <<"i", "n", "p", "u", "t", "s">>),
     outputs |-> Get(spec_data, <<"o", "u", "t", "p", "u", "t", "s">>),
     failure_modes |-> Get(spec_data, <<"f", "a", "i", "l", "u", "r", "e", "_", "m", "o", "d", "e", "s">>),
     deterministic |-> Get(spec_data, <<"d", "e", "t", "e", "r", "m", "i", "n", "i", "s", "t", "i", "c">>),
     imports |-> GetOr(spec_data, <<"i", "m", "p", "o", "r", "t", "s">>, PyList(<<>>)),
     semantic_tags |-> GetOr(spec_data, <<"s", "e", "m", "a", "n", "t", "i", "c", "_", "t", "a", "g", "s">>, PyList(<<>>))]

\* The ToolMetadata that load builds from a document.
MetadataFromDoc(data) ==
    [tool_id |-> Get(data, <<"t", "o", "o", "l", "_", "i", "d">>), version |-> Get(data, <<"v", "e", "r", "s", "i", "o", "n">>),
     created_at |-> Get(data, <<"c", "r", "e", "a", "t", "e", "d", "_", "a", "t">>),
     spec |-> SpecFromDict(Get(data, <<"s", "p", "e", "c">>)),
     source_path |-> PathOf(Get(data, <<"s", "o", "u", "r", "c", "e", "_", "p", "a", "t", "h">>).s),
     tests_path |-> PathOf(Get(data, <<"t", "e", "s", "t", "s", "_", "p", "a", "t", "h">>).s),
     test_results_path |-> PathOf(Get(data, <<"t", "e", "s", "t", "_", "r", "e", "s", "u", "l", "t", "s", "_", "p", "a", "t", "h">>).s),
     dependencies |-> GetOr(data, <<"d", "e", "p", "e", "n", "d", "e", "n", "c", "i", "e", "s">>, PyDict(<<>>)),
     security_policy |-> GetOr(data, <<"s", "e", "c", "u", "r", "i", "t", "y", "_", "p", "o", "l", "i", "c", "y">>, PyStr(<<>>)),
     capability_profile |-> GetOr(data, <<"c", "a", "p", "a", "b", "i", "l", "i", "t", "y", "_", "p", "r", "o", "f", "i", "l", "e">>, PyStr(<<>>)),
     model |-> GetOr(data, <<"m", "o", "d", "e", "l">>, PyStr(<<>>)),
     template_id |-> Get(data, <<"t", "e", "m", "p", "l", "a", "t", "e", "_", "i", "d">>)]

\* ToolRegistry.load(tool_id): <<>> for None, else the metadata.
LoadMetadata(docs, tool_id) ==
    IF tool_id \notin DOMAIN docs THEN <<>> ELSE <<MetadataFromDoc(docs[tool_id])>>

\* Mutant: an existing metadata.json is left as it is.
WriteMetadata_KeepFirst(docs, metadata) ==
    IF metadata.tool_id.s \in DOMAIN docs THEN docs
    ELSE [id \in DOMAIN docs \cup {metadata.tool_id.s} |->
             IF id = metadata.tool_id.s THEN JsonRoundTrip(ToDict(metadata)) ELSE docs[id]]

\* ToolRegistry.register(metadata): metadata.json of the tool's directory
\* is (over)written with metadata.to_json().
WriteMetadata(docs, metadata) ==
    [id \in DOMAIN docs \cup {metadata.tool_id.s} |->
        IF id = metadata.tool_id.s THEN JsonRoundTrip(ToDict(metadata)) ELSE docs[id]]

\* The metadata handed to register: two tool ids, and for each four
\* contents that differ in version, purity, paths, dependencies (also only in
\* their insertion order) and template id.
Contract(deterministic, tags, inputs) ==
    [name |-> PyStr(<<"f">>), signature |-> PyStr(<<"f", "(", ")">>), docstring |-> PyStr(<<>>),
     inputs |-> PyDict(inputs), outputs |-> PyDict(<<>>), failure_modes |-> PyList(<<>>),
     deterministic |-> deterministic, imports |-> PyList(<<>>), semantic_tags |-> PyList(tags)]

Metadata(tool_id, version, spec, path, dependencies, template_id) ==
    [tool_id |-> PyStr(tool_id), version |-> PyStr(version), created_at |-> PyStr(<<>>),
     spec |-> spec, source_path |-> PathOf(path), tests_path |-> PathOf(<<".">>),
     test_results_path |-> PathOf(<<"/", "t">>), dependencies |-> PyDict(dependencies),
     security_policy |-> PyStr(<<>>), capability_profile |-> PyStr(<<>>),
     model |-> PyStr(<<"m">>), template_id |-> template_id]

Metadatas ==
    UNION {{Metadata(id, <<"1">>, Contract(PyTrue, <<>>, <<>>), <<".">>, <<>>, PyNone),
            Metadata(id, <<"2">>, Contract(PyFalse, <<PyStr(<<"p", "u", "r", "e">>)>>,
                                         <<<<<<"y">>, PyStr(<<"q">>)>>, <<<<"x">>, PyStr(<<"p">>)>>>>),
                     <<"a", "/", "f", ".", "p", "y">>, <<<<<<"y">>, PyStr(<<"2">>)>>, <<<<"x">>, PyStr(<<"1">>)>>>>,
                     PyStr(<<"t", "p", "l">>)),
            Metadata(id, <<"1">>, Contract(PyTrue, <<>>, <<>>), <<".">>, <<>>, PyStr(<<"t", "p", "l">>)),
            Metadata(id, <<"2">>, Contract(PyFalse, <<PyStr(<<"p", "u", "r", "e">>)>>,
                                         <<<<<<"x">>, PyStr(<<"p">>)>>, <<<<"y">>, PyStr(<<"q">>)>>>>),
                     <<"a", "/", "f", ".", "p", "y">>, <<<<<<"x">>, PyStr(<<"1">>)>>, <<<<"y">>, PyStr(<<"2">>)>>>>,
                     PyStr(<<"t", "p", "l">>))} :
           id \in {<<"t", "1">>, <<"t", "2">>}}

\* The ids load is asked for: the two above and one that is never registered.
LoadIds == {<<"t", "1">>, <<"t", "2">>, <<"t", "3">>}

\* seq with x put at index place.
InsertAt(seq, place, x) == SubSeq(seq, 1, place - 1) \o <<x>> \o SubSeq(seq, place, Len(seq))

\* A registry root just made: no tool directory, no embeddings_cache.json.
\*   order: the tool ids in the order root.iterdir() lists their directories
\*   embeddings: embeddings_cache.json, hash of the text -> vector
\*   searches: the semantic searches made so far (history)
EmptyRegistry ==
    [docs |-> <<>>, order |-> <<>>, embeddings |-> <<>>,
     written |-> <<>>, writes |-> <<>>, searches |-> 0]

InitRegistry ==
    /\ mode = "registry"
    /\ registry = NoRegistry
    /\ workflow = NoWorkflow
    /\ cache = {}
    /\ stack = <<>>
    /\ outcome = Idle
    /\ log = <<>>
    /\ calls = 0
    /\ reg = EmptyRegistry
    /\ last = [op |-> "none", tool_id |-> <<>>, result |-> <<>>]
    /\ ops = 0

\* registry.register(metadata).  A tool directory that is new takes any
\* place in the order in which root.iterdir() lists the directories.
Register(metadata) ==
    /\ mode \in {"registry", "search", "scan"}
    /\ ops < MaxOps
    /\ LET id == metadata.tool_id.s
       IN  \E place \in 1..(Len(reg.order) + 1) :
             reg' = [reg EXCEPT
                       !.docs = WriteMetadata(reg.docs, metadata),
                       !.order = IF id \in DOMAIN reg.docs THEN @ ELSE InsertAt(@, place, id),
                       !.written = [i \in DOMAIN reg.written \cup {id} |->
                                       IF i = id THEN metadata ELSE reg.written[i]],
                       !.writes = [i \in DOMAIN reg.writes \cup {id} |->
                                      IF i = id
                                      THEN (IF id \in DOMAIN reg.writes
                                            THEN reg.writes[id] + 1 ELSE 1)
                                      ELSE reg.writes[i]]]
    /\ last' = [op |-> "register", tool_id |-> metadata.tool_id.s, result |-> <<>>]
    /\ ops' = ops + 1
    /\ UNCHANGED <<mode, registry, workflow, cache, stack, outcome, log, calls>>

\* registry.load(tool_id)
LoadTool(tool_id) ==
    /\ mode = "registry"
    /\ ops < MaxOps
    /\ last' = [op |-> "load", tool_id |-> tool_id, result |-> LoadMetadata(reg.docs, tool_id)]
    /\ ops' = ops + 1
    /\ UNCHANGED <<mode, registry, workflow, cache, stack, outcome, log, calls, reg>>

NextRegistry ==
    \/ \E metadata \in Metadatas : Register(metadata)
    \/ \E tool_id \in LoadIds : LoadTool(tool_id)

SpecRegistry == InitRegistry /\ [][NextRegistry]_vars

\* Two Python dicts are equal: the same keys with the same values.
PyDictEq(d1, d2) == {d1.kv[i] : i \in 1..Len(d1.kv)} = {d2.kv[i] : i \in 1..Len(d2.kv)}

\* Two ToolMetadata are equal in every field.
MetadataEq(m1, m2) ==
    /\ m1.tool_id = m2.tool_id /\ m1.version = m2.version /\ m1.created_at = m2.created_at
    /\ m1.spec.name = m2.spec.name /\ m1.spec.signature = m2.spec.signature
    /\ m1.spec.docstring = m2.spec.docstring
    /\ PyDictEq(m1.spec.inputs, m2.spec.inputs) /\ PyDictEq(m1.spec.outputs, m2.spec.outputs)
    /\ m1.spec.failure_modes = m2.spec.failure_modes
    /\ m1.spec.deterministic = m2.spec.deterministic
    /\ m1.spec.imports = m2.spec.imports /\ m1.spec.semantic_tags = m2.spec.semantic_tags
    /\ m1.source_path = m2.source_path /\ m1.tests_path = m2.tests_path
    /\ m1.test_results_path = m2.test_results_path
    /\ PyDictEq(m1.dependencies, m2.dependencies)
    /\ m1.security_policy = m2.security_policy
    /\ m1.capability_profile = m2.capability_profile
    /\ m1.model = m2.model /\ m1.template_id = m2.template_id

\* C6: load(tool_id) returns metadata equal in every field to the metadata
\* most recently registered under tool_id, and None for an id that was never
\* registered.
C6_LoadReturnsLastRegistered ==
    (mode = "registry" /\ last.op = "load") =>
        IF last.tool_id \in DOMAIN reg.written
        THEN /\ last.result # <<>>
             /\ MetadataEq(last.result[1], reg.written[last.tool_id])
        ELSE last.result = <<>>

\* C6's case: an id registered twice, with different contents, was loaded.
C6_Witness ==
    /\ mode = "registry" /\ last.op = "load"
    /\ last.tool_id \in DOMAIN reg.writes
    /\ reg.writes[last.tool_id] = 2
    /\ last.result # <<>>
    /\ last.result[1].version = PyStr(<<"2">>)
    /\ last.result[1].dependencies.kv # reg.written[last.tool_id].dependencies.kv

(***************************************************************************)
(* ToolRegistry.search_tools: SpecSearch                                   *)
(***************************************************************************)

\* Semantic searches in one behaviour.
MaxSearches == 2

\* ToolRegistry.list_tools(): the metadata of every tool directory, in the
\* order root.iterdir() lists them.
ListTools(r) == [i \in 1..Len(r.order) |-> LoadMetadata(r.docs, r.order[i])[1]]

\* s.split(): the runs of non-blank characters.
RECURSIVE SplitWords(_)
SplitWords(s) ==
    LET text == Strip(s)
    IN  IF text = <<>> THEN <<>>
        ELSE IF ~Contains(text, <<" ">>) THEN <<text>>
        ELSE <<SplitOnce(text, <<" ">>)[1]>> \o SplitWords(SplitOnce(text, <<" ">>)[2])

\* 1 for True, 0 for False.
Count(b) == IF b THEN 1 ELSE 0

\* sum over a sequence of integers
RECURSIVE Sum(_)
Sum(ns) == IF ns = <<>> THEN 0 ELSE ns[1] + Sum(Tail(ns))

\* Mutant: the words of the query are not looked for in the name.
KeywordScore_NoWords(query, tool) ==
    LET query_lower == Lower(query)
    IN  3 * Count(Contains(Lower(tool.spec.name.s), query_lower))
        + Count(Contains(Lower(tool.spec.docstring.s), query_lower))

\* The score the keyword loop gives one tool ("" is in every string).
KeywordScore(query, tool) ==
    LET query_lower == Lower(query)
        words == SplitWords(query_lower)
    IN  3 * Count(Contains(Lower(tool.spec.name.s), query_lower))
        + Count(Contains(Lower(tool.spec.docstring.s), query_lower))
        + Sum([i \in 1..Len(words) |-> Count(Contains(Lower(tool.spec.name.s), words[i]))])

\* list.sort(key=score, reverse=True): by falling score, equal scores in
\* the order they had.  greater[i][j]: the score of scored[i] is greater
\* than the score of scored[j].
SortDescending(scored, greater) ==
    LET n == Len(scored)
        Place(i) == 1 + Cardinality({j \in 1..n : greater[j][i]})
                      + Cardinality({j \in 1..(i - 1) : ~greater[j][i] /\ ~greater[i][j]})
    IN  [k \in 1..n |-> scored[CHOOSE i \in 1..n : Place(i) = k]]

\* [r[1] for r in results[:top_k]] for top_k >= 0
TopK(scored, top_k) ==
    [i \in 1..(IF top_k < Len(scored) THEN top_k ELSE Len(scored)) |-> scored[i][2]]

\* a > b for every two scores of scored: the integers of the keyword loop
IntGreater(scored) ==
    [i \in 1..Len(scored) |-> [j \in 1..Len(scored) |-> scored[i][1] > scored[j][1]]]

\* search_tools(query, None, top_k)
KeywordSearch(r, query, top_k) ==
    LET all_tools == ListTools(r)
        Positive(pair) == pair[1] > 0
        results == SelectSeq([i \in 1..Len(all_tools) |->
                                <<KeywordScore(query, all_tools[i]), all_tools[i]>>], Positive)
    IN  IF all_tools = <<>> THEN <<>>
        ELSE TopK(SortDescending(results, IntGreater(results)), top_k)

\* The embedders handed to search_tools.  Vectors are in halves: <<1, 1>>
\* is [0.5, 0.5].
\*   mock: mock_embedder of the tests
\*   other: [0, 0] for a text about copying, [-1, 1] for any other
Embedders == {"mock", "other"}

Embed(embedder, text) ==
    IF embedder = "mock"
    THEN (IF Contains(Lower(text), <<"s", "e", "a", "r", "c", "h">>) \/ Contains(Lower(text), <<"f", "i", "n", "d">>) THEN <<2, 0>>
          ELSE IF Contains(Lower(text), <<"c", "o", "p", "y">>) THEN <<0, 2>>
          ELSE <<1, 1>>)
    ELSE (IF Contains(Lower(text), <<"c", "o", "p", "y">>) THEN <<0, 0>> ELSE <<-2, 2>>)

\* sum(a * b for a, b in zip(v1, v2))
Dot(v1, v2) ==
    Sum([i \in 1..(IF Len(v1) < Len(v2) THEN Len(v1) ELSE Len(v2)) |-> v1[i] * v2[i]])

\* _cosine_similarity(v1, v2), kept exact: num / sqrt(den2), and 0 when a
\* norm is 0.
CosineSimilarity(v1, v2) ==
    IF Dot(v1, v1) > 0 /\ Dot(v2, v2) > 0
    THEN [num |-> Dot(v1, v2), den2 |-> Dot(v1, v1) * Dot(v2, v2)]
    ELSE [num |-> 0, den2 |-> 1]

\* x * |x|
SignedSquare(x) == IF x < 0 THEN 0 - x * x ELSE x * x

\* a > b for two similarities
CosineGreater(a, b) == SignedSquare(a.num) * b.den2 > SignedSquare(b.num) * a.den2

\* a > b for every two scores of scored: similarities
SimilarityGreater(scored) ==
    [i \in 1..Len(scored) |->
        [j \in 1..Len(scored) |-> CosineGreater(scored[i][1], scored[j][1])]]

\* f"{tool.spec.name}: {tool.spec.docstring}"
EmbeddedText(tool) == tool.spec.name.s \o <<":", " ">> \o tool.spec.docstring.s

\* tool_hash: what the embedding cache is keyed by.
ToolHash(tool) == HashPayload(<<EmbeddedText(tool)>>)

\* Mutant: the vector of every registered tool is computed anew.
EmbeddingsAfter_Recomputed(r, embedder) ==
    LET all_tools == ListTools(r)
        hashes == {ToolHash(all_tools[i]) : i \in 1..Len(all_tools)}
        TextOf(h) == EmbeddedText(all_tools[CHOOSE i \in 1..Len(all_tools) :
                                                ToolHash(all_tools[i]) = h])
    IN  [h \in DOMAIN r.embeddings \cup hashes |->
            IF h \in hashes THEN Embed(embedder, TextOf(h)) ELSE r.embeddings[h]]

\* The embedding cache once the loop has gone over the tools: a text that
\* was not in it has the embedder's vector.
EmbeddingsAfter(r, embedder) ==
    LET all_tools == ListTools(r)
        hashes == {ToolHash(all_tools[i]) : i \in 1..Len(all_tools)}
        TextOf(h) == EmbeddedText(all_tools[CHOOSE i \in 1..Len(all_tools) :
                                                ToolHash(all_tools[i]) = h])
    IN  [h \in DOMAIN r.embeddings \cup hashes |->
            IF h \in DOMAIN r.embeddings THEN r.embeddings[h] ELSE Embed(embedder, TextOf(h))]

\* The texts the embedder is called with, in order: the query, then the
\* text of each tool whose hash is not in the cache when the loop reaches it.
\* Without a registered tool search_tools returns before any call.
EmbedderCalls(r, query) ==
    LET all_tools == ListTools(r)
        Computed(i) == /\ ToolHash(all_tools[i]) \notin DOMAIN r.embeddings
                       /\ \A j \in 1..(i - 1) : ToolHash(all_tools[j]) # ToolHash(all_tools[i])
        texts == [i \in 1..Len(all_tools) |-> EmbeddedText(all_tools[i])]
    IN  IF all_tools = <<>> THEN <<>>
        ELSE <<query>> \o [k \in 1..Cardinality({i \in 1..Len(all_tools) : Computed(i)}) |->
                              texts[CHOOSE i \in 1..Len(all_tools) :
                                        /\ Computed(i)
                                        /\ Cardinality({j \in 1..(i - 1) : Computed(j)}) = k - 1]]

\* search_tools(query, embedder, top_k)
SemanticSearch(r, query, embedder, top_k) ==
    LET all_tools == ListTools(r)
        query_embedding == Embed(embedder, query)
        embeddings == EmbeddingsAfter(r, embedder)
        tool_scores == [i \in 1..Len(all_tools) |->
                          <<CosineSimilarity(query_embedding,
                                             embeddings[ToolHash(all_tools[i])]),
                            all_tools[i]>>]
    IN  IF all_tools = <<>> THEN <<>>
        ELSE TopK(SortDescending(tool_scores, SimilarityGreater(tool_scores)), top_k)

\* The tools registered before a search: the two of the tests and one that
\* is about neither searching nor copying.
SearchTool(name, docstring) ==
    Metadata(name, <<"1">>,
             [Contract(PyTrue, <<>>, <<>>) EXCEPT !.name = PyStr(name),
                                                  !.docstring = PyStr(docstring)],
             <<".">>, <<>>, PyNone)

SearchFiles == SearchTool(<<"s", "e", "a", "r", "c", "h", "_", "f", "i", "l", "e", "s">>, <<"F", "i", "n", "d", "s", " ", "f", "i", "l", "e", "s", " ", "m", "a", "t", "c", "h", "i", "n", "g", " ", "a", " ", "p", "a", "t", "t", "e", "r", "n", ".">>)

CopyFile == SearchTool(<<"c", "o", "p", "y", "_", "f", "i", "l", "e">>, <<"C", "o", "p", "i", "e", "s", " ", "a", " ", "f", "i", "l", "e", " ", "f", "r", "o", "m", " ", "s", "r", "c", " ", "t", "o", " ", "d", "s", "t", ".">>)

ListDir == SearchTool(<<"l", "i", "s", "t", "_", "d", "i", "r">>, <<"L", "i", "s", "t", "s", " ", "a", " ", "d", "i", "r", "e", "c", "t", "o", "r", "y", ".">>)

SearchTools == {SearchFiles, CopyFile, ListDir}

\* The queries of the keyword searches and of the semantic searches.
KeywordQueries ==
    {<<"F", "I", "N", "D", "S">>, <<"f", "i", "l", "e">>,
     <<"c", "o", "p", "y", " ", "f", "i", "l", "e">>, <<"z", "z", "z">>}

SemanticQueries ==
    {<<"s", "e", "a", "r", "c", "h", " ", "s", "o", "m", "e", "t", "h", "i", "n", "g">>,
     <<"c", "o", "p", "y", " ", "t", "h", "i", "s">>}

TopKs == {1, 2}

InitSearch ==
    /\ mode = "search"
    /\ registry = NoRegistry
    /\ workflow = NoWorkflow
    /\ cache = {}
    /\ stack = <<>>
    /\ outcome = Idle
    /\ log = <<>>
    /\ calls = 0
    /\ reg = EmptyRegistry
    /\ last = [op |-> "none", tool_id |-> <<>>, result |-> <<>>]
    /\ ops = 0

\* registry.search_tools(query, top_k=top_k)
SearchKeyword(query, top_k) ==
    /\ mode = "search"
    /\ last' = [op |-> "search", query |-> query, embedder |-> "none", top_k |-> top_k,
                result |-> KeywordSearch(reg, query, top_k),
                before |-> reg.embeddings, dirty |-> FALSE, embedded |-> <<>>]
    /\ UNCHANGED <<mode, registry, workflow, cache, stack, outcome, log, calls, reg, ops>>

\* registry.search_tools(query, embedder=embedder, top_k=top_k);
\* embeddings_cache.json is written when a tool's embedding was not in it.
SearchSemantic(query, embedder, top_k) ==
    /\ mode = "search"
    /\ reg.searches < MaxSearches
    /\ last' = [op |-> "search", query |-> query, embedder |-> embedder, top_k |-> top_k,
                result |-> SemanticSearch(reg, query, embedder, top_k),
                before |-> reg.embeddings,
                dirty |-> Len(EmbedderCalls(reg, query)) > 1,
                embedded |-> EmbedderCalls(reg, query)]
    /\ reg' = [reg EXCEPT !.embeddings = IF Len(EmbedderCalls(reg, query)) > 1
                                         THEN EmbeddingsAfter(reg, embedder)
                                         ELSE @,
                          !.searches = @ + 1]
    /\ UNCHANGED <<mode, registry, workflow, cache, stack, outcome, log, calls, ops>>

NextSearch ==
    \/ \E metadata \in SearchTools :
          metadata.tool_id.s \notin DOMAIN reg.docs /\ Register(metadata)
    \/ \E query \in KeywordQueries, top_k \in TopKs : SearchKeyword(query, top_k)
    \/ \E query \in SemanticQueries, embedder \in Embedders, top_k \in TopKs :
          SearchSemantic(query, embedder, top_k)

SpecSearch == InitSearch /\ [][NextSearch]_vars

\* The tool ids of a search result, in order.
ResultIds == [i \in 1..Len(last.result) |-> last.result[i].tool_id.s]

\* The score as written: the query and its words looked for as they are.
ScoreAsWritten(query, tool) ==
    LET words == SplitWords(query)
    IN  3 * Count(Contains(tool.spec.name.s, query))
        + Count(Contains(tool.spec.docstring.s, query))
        + Sum([i \in 1..Len(words) |-> Count(Contains(tool.spec.name.s, words[i]))])

\* The same score with the query, the name and the docstring lowercased.
ScoreIgnoringCase(query, tool) ==
    ScoreAsWritten(Lower(query),
                   [tool EXCEPT !.spec.name.s = Lower(@), !.spec.docstring.s = Lower(@)])

\* The result is exactly the registered tools whose score is positive, by
\* falling score, ties in scan order, cut to top_k.  score: tool id -> score.
KeywordResultIs(score) ==
    LET Place(id) == CHOOSE i \in 1..Len(reg.order) : reg.order[i] = id
        positive == {id \in DOMAIN reg.written : score[id] > 0}
        Before(a, b) == score[a] > score[b] \/ (score[a] = score[b] /\ Place(a) < Place(b))
        n == Len(ResultIds)
    IN  /\ \A i \in 1..n : ResultIds[i] \in positive
        /\ \A i \in 1..n : MetadataEq(last.result[i], reg.written[ResultIds[i]])
        /\ \A i \in 1..n : \A j \in (i + 1)..n : Before(ResultIds[i], ResultIds[j])
        /\ n = (IF last.top_k < Cardinality(positive) THEN last.top_k
                ELSE Cardinality(positive))
        /\ \A a \in positive \ {ResultIds[i] : i \in 1..n} :
              \A i \in 1..n : Before(ResultIds[i], a)

KeywordSearched == mode = "search" /\ last.op = "search" /\ last.embedder = "none"

\* C7 as stated: keyword search returns exactly the tools with a positive
\* score, by falling score with ties in scan order, cut to top_k, where the
\* score is 3 if the query is a substring of the name, plus 1 if it is a
\* substring of the docstring, plus 1 for each word of the query found in
\* the name.
C7_KeywordSearchBySubstring ==
    KeywordSearched =>
        KeywordResultIs([id \in DOMAIN reg.written |->
                            ScoreAsWritten(last.query, reg.written[id])])

\* C7 amended: the same with the query, the name and the docstring compared
\* in lower case.
C7_KeywordSearchIgnoringCase ==
    KeywordSearched =>
        KeywordResultIs([id \in DOMAIN reg.written |->
                            ScoreIgnoringCase(last.query, reg.written[id])])

\* C7's case: among three registered tools, the search for "FINDS" returned
\* the one tool whose docstring holds "Finds".
C7_Witness ==
    /\ KeywordSearched
    /\ Len(reg.order) = 3
    /\ last.query = <<"F", "I", "N", "D", "S">>
    /\ ResultIds = <<<<"s", "e", "a", "r", "c", "h", "_", "f", "i", "l", "e", "s">>>>

\* C8: with an embedder, the tools come back by falling cosine similarity
\* between the embedder's vector for the query and its vector for
\* "name: docstring"; with the embedder of the tests "search something"
\* puts the search tool first and "copy this" puts the copy tool first.
C8_SemanticSearchBySimilarity ==
    (mode = "search" /\ last.op = "search" /\ last.embedder # "none") =>
        LET Similarity(tool) ==
                CosineSimilarity(Embed(last.embedder, last.query),
                                 Embed(last.embedder, EmbeddedText(tool)))
            n == Len(last.result)
        IN  /\ \A i \in 1..n : \A j \in (i + 1)..n :
                  ~CosineGreater(Similarity(last.result[j]), Similarity(last.result[i]))
            /\ (last.embedder = "mock" /\ last.query = <<"s", "e", "a", "r", "c", "h", " ", "s", "o", "m", "e", "t", "h", "i", "n", "g">>
                  /\ <<"s", "e", "a", "r", "c", "h", "_", "f", "i", "l", "e", "s">> \in DOMAIN reg.written)
                  => ResultIds[1] = <<"s", "e", "a", "r", "c", "h", "_", "f", "i", "l", "e", "s">>
            /\ (last.embedder = "mock" /\ last.query = <<"c", "o", "p", "y", " ", "t", "h", "i", "s">>
                  /\ <<"c", "o", "p", "y", "_", "f", "i", "l", "e">> \in DOMAIN reg.written)
                  => ResultIds[1] = <<"c", "o", "p", "y", "_", "f", "i", "l", "e">>

(***************************************************************************)
(* Failures of WorkflowEngine.execute, checked under Spec                  *)
(***************************************************************************)

\* The ids of the steps the active execute calls were at when the exception
\* left them, the innermost last.
FailingSteps == {CurStep(outcome.at[d]).id : d \in 1..Len(outcome.at)}

\* C11: every exception execute lets out to its caller carries the id of
\* the step that failed.
C11_FailureCarriesStepId ==
    (mode = "engine" /\ outcome.status = "raised") => outcome.result.step \in FailingSteps

\* The foreach target of LoopPipeline's first step, "$items", resolves to a
\* value that is no list: a number, a string, or None when it is absent.
NonListForeach ==
    /\ mode = "engine" /\ workflow = LoopPipeline /\ outcome.status # "idle"
    /\ Get(outcome.inputs, <<"i", "t", "e", "m", "s">>).t # "list"

\* C12: when the foreach target is not a sequence, execute aborts with a
\* TypeError before the step's tool is invoked for any item: nothing is
\* invoked, no later step is reached and no context is returned.
C12_NonListForeachAborts ==
    NonListForeach =>
        /\ log = <<>>
        /\ outcome.status \in {"running", "raised"}
        /\ stack # <<>> => (Len(stack) = 1 /\ Top.pc = 1 /\ ~Top.in_loop)
        /\ outcome.status = "raised" =>
              (outcome.result = Raise("TypeError", <<"e", "a", "c", "h">>, "") /\ stack = <<>>)

\* C12's case: on an engine that has run before, "$items" resolved to the
\* number 1 and execute raised the TypeError.
C12_Witness ==
    /\ NonListForeach
    /\ calls = 2
    /\ Get(outcome.inputs, <<"i", "t", "e", "m", "s">>) = One
    /\ outcome.status = "raised"
    /\ outcome.result.exc = "TypeError"

(***************************************************************************)
(* Tool resolution of _run_step_logic, checked under Spec                  *)
(***************************************************************************)

\* tool_id is the pipeline_id of no cached workflow and the template id and
\* the name of no registered tool.
MatchesNothing(r, tool_id) ==
    /\ \A i \in 1..Len(r.cached_specs) : r.cached_specs[i].pipeline_id # tool_id
    /\ \A i \in 1..Len(r.tools) :
          r.tools[i].template_id # tool_id /\ r.tools[i].name # tool_id

\* The top record is about to run step logic, its bindings resolve, and the
\* step's tool_id matches nothing.
AtUnknownTool ==
    /\ mode = "engine" /\ stack # <<>>
    /\ ReadyToRun(Top)
    /\ BindError(Top) = <<>>
    /\ MatchesNothing(registry, CurStep(Top).tool_id)

\* C13: a step whose tool_id matches no cached workflow and no tool fails
\* with a RuntimeError that names the step id and the tool id; nothing is
\* invoked for it and execute is left at once, no context returned.
C13_UnknownToolAborts ==
    [][AtUnknownTool =>
          /\ outcome'.status = "raised"
          /\ outcome'.result = Raise("RuntimeError", CurStep(Top).id, CurStep(Top).tool_id)
          /\ log' = log
          /\ stack' = <<>>]_vars

\* C13's case: UnknownPipeline's first step asked for "nope" and execute
\* raised, the second step never reached.
C13_Witness ==
    /\ mode = "engine" /\ workflow = UnknownPipeline
    /\ outcome.status = "raised"
    /\ outcome.result = Raise("RuntimeError", <<"u">>, "nope")
    /\ log = <<>>
    /\ Len(registry.tools) > 1

\* Every step a behaviour can run: the workflow's and the cached workflows'.
KnownSteps ==
    {workflow.steps[i] : i \in 1..Len(workflow.steps)} \cup
    UNION {{registry.cached_specs[c].steps[i] : i \in 1..Len(registry.cached_specs[c].steps)} :
              c \in 1..Len(registry.cached_specs)}

\* The tool_id the step with this id asks for.
RequestedToolId(step_id) == (CHOOSE s \in KnownSteps : s.id = step_id).tool_id

HasTemplate(r, tool_id) == \E i \in 1..Len(r.tools) : r.tools[i].template_id = tool_id
IsPipelineId(r, tool_id) ==
    \E c \in 1..Len(r.cached_specs) : r.cached_specs[c].pipeline_id = tool_id

\* C14: a tool_id is resolved in strict priority order. Step logic runs on a
\* tool only for a step whose tool_id names no cached workflow; that tool has
\* the tool_id as its template id whenever some tool has, and as its name
\* only when none has; and every nested activation of execute runs the
\* cached workflow its caller's step names.
C14_ResolutionPriority ==
    mode = "engine" =>
        /\ \A i \in 1..Len(log) :
              LET tool_id == RequestedToolId(log[i].step)
                  tool == Load(registry, log[i].tool)
              IN  /\ ~IsPipelineId(registry, tool_id)
                  /\ HasTemplate(registry, tool_id) => tool.template_id = tool_id
                  /\ ~HasTemplate(registry, tool_id) => tool.name = tool_id
        /\ \A d \in 2..Len(stack) :
              /\ IsPipelineId(registry, CurStep(stack[d - 1]).tool_id)
              /\ stack[d].comp_spec.pipeline_id = CurStep(stack[d - 1]).tool_id

\* C14's case: ResolvePipeline returned after a step resolved by template id
\* ("tpl", also a tool's name), one by name ("g") and one by the cached
\* workflow "memo" (also a tool's template id), whose two steps ran.
C14_Witness ==
    /\ mode = "engine" /\ workflow = ResolvePipeline
    /\ outcome.status = "returned"
    /\ Len(log) = 4
    /\ Load(registry, log[1].tool).template_id = "tpl"
    /\ Load(registry, log[2].tool).name = "g"
    /\ log[3].tool = "print_msg" /\ log[4].tool = "print_msg"

\* The registry with the same entries listed in the opposite directory order.
Reordered(r) == [r EXCEPT !.tools = Reverse(r.tools)]

\* C15: the tool step logic runs on does not depend on the directory order:
\* the registry holding the same entries in the opposite order gives the
\* same tool for every step that was run.
C15_ChoiceIndependentOfOrder ==
    mode = "engine" =>
        \A i \in 1..Len(log) :
            ConcreteToolIds(Reordered(registry), RequestedToolId(log[i].step))[1] = log[i].tool

(***************************************************************************)
(* Nested workflows and the final context, checked under Spec              *)
(***************************************************************************)

\* The step of the workflow that names the cached workflow "memo": its id,
\* its first output, the keyword arguments its bindings resolve to, and the
\* place in the log of the first step the nested run executes.
NestedCall ==
    IF workflow = OuterPipeline
    THEN [id |-> <<"s", "u", "b">>, output |-> <<"c", "t", "x">>, first |-> 1,
          v |-> Get(outcome.inputs, <<"p">>), w |-> PyStr(<<"k">>)]
    ELSE [id |-> <<"s", "3">>, output |-> <<"r", "e", "s">>, first |-> 3, v |-> OneStr, w |-> OneStr]

\* The final context of the nested run of "memo": the arguments passed, then
\* one entry for each of its two steps.
NestedContext ==
    PyDict(<<<<<<"v">>, NestedCall.v>>, <<<<"w">>, NestedCall.w>>,
             <<<<"a">>, PyDict(<<<<<<"r", "e", "s">>, log[NestedCall.first].result>>>>)>>,
             <<<<"b">>, PyDict(<<<<<<"r", "e", "s">>, log[NestedCall.first + 1].result>>>>)>>>>)

\* C16: a nested activation of execute starts from the caller's resolved
\* keyword arguments, and when the workflow returns the nesting step's entry
\* holds, under its first output, the whole final context of the nested run:
\* the arguments and one entry per nested step.
C16_NestedContextIsStepResult ==
    mode = "engine" =>
        /\ \A d \in 2..Len(stack) :
              \A key \in Keys(Kwargs(stack[d - 1])) :
                  /\ HasKey(stack[d].context, key)
                  /\ Get(stack[d].context, key) = Get(Kwargs(stack[d - 1]), key)
        /\ (workflow \in {OuterPipeline, ResolvePipeline} /\ outcome.status = "returned") =>
              LET entry == Get(outcome.result, NestedCall.id)
              IN  /\ entry.t = "dict"
                  /\ Keys(entry) = {NestedCall.output}
                  /\ Get(entry, NestedCall.output) = NestedContext

\* C16's case: OuterPipeline returned with input p = '1'; its step "sub" ran
\* "memo" with v = $p and w = 'k', whose two steps ran the tool.
C16_Witness ==
    /\ mode = "engine" /\ workflow = OuterPipeline
    /\ outcome.status = "returned"
    /\ Get(outcome.inputs, <<"p">>) = OneStr
    /\ Len(log) = 3
    /\ log[1].step = <<"a">> /\ log[2].step = <<"b">>
    /\ log[1].result # log[2].result

\* The steps of the workflow that the returned run executed: those with no
\* condition or one that holds (no step changes what a condition reads).
Executed ==
    {i \in 1..Len(workflow.steps) :
        \/ workflow.steps[i].if_condition = <<>>
        \/ EvaluateCondition(workflow.steps[i].if_condition, outcome.result)}

\* The ids of the executed steps that declare an output.
Stored == {workflow.steps[i].id : i \in {j \in Executed : workflow.steps[j].outputs # <<>>}}

\* The entry of step i in the final context is {first output: value}.
IsStepEntry(i) ==
    /\ workflow.steps[i].outputs # <<>>
    /\ HasKey(outcome.result, workflow.steps[i].id)
    /\ Get(outcome.result, workflow.steps[i].id).t = "dict"
    /\ Keys(Get(outcome.result, workflow.steps[i].id)) = {workflow.steps[i].outputs[1]}

\* C17 as stated: the returned context keeps every input and holds an entry
\* {first output: value} for every executed step, none for a skipped one.
C17_ContextIsInputsPlusStepEntries ==
    (mode = "engine" /\ outcome.status = "returned") =>
        /\ \A key \in Keys(outcome.inputs) :
              HasKey(outcome.result, key) /\ Get(outcome.result, key) = Get(outcome.inputs, key)
        /\ \A i \in 1..Len(workflow.steps) :
              IF i \in Executed THEN IsStepEntry(i)
              ELSE ~HasKey(outcome.result, workflow.steps[i].id)

\* C17 amended: the keys of the returned context are the input keys and the
\* ids of the executed steps that declare an output; each of those steps has
\* the entry {first output: value}; every input key that is not such a step
\* id keeps its value.
C17_ContextIsInputsPlusStoredEntries ==
    (mode = "engine" /\ outcome.status = "returned") =>
        /\ Keys(outcome.result) = Keys(outcome.inputs) \cup Stored
        /\ \A i \in Executed : workflow.steps[i].outputs # <<>> => IsStepEntry(i)
        /\ \A key \in Keys(outcome.inputs) \ Stored :
              Get(outcome.result, key) = Get(outcome.inputs, key)

\* C17's case: OuterPipeline returned after its step "fin", which declares no
\* output, ran the tool: the context holds the input and the entry of "sub".
C17_Witness ==
    /\ mode = "engine" /\ workflow = OuterPipeline
    /\ outcome.status = "returned"
    /\ Executed = {1, 2}
    /\ Len(log) = 3 /\ log[3].step = <<"f", "i", "n">> /\ log[3].invoked
    /\ Keys(outcome.result) = {<<"p">>, <<"s", "u", "b">>}

(***************************************************************************)
(* Scans over a registry with a damaged entry: SpecScan                    *)
(***************************************************************************)

\* The text of a metadata.json that json.loads rejects.
CorruptText == [t |-> "corrupt"]

\* Lines 490-497: load(tool_id) raises, json.loads failing on the file.
LoadRaises(docs, tool_id) == tool_id \in DOMAIN docs /\ docs[tool_id].t = "corrupt"

\* load(tool_id): the exception, None, or the metadata.
LoadOutcome(r, tool_id) ==
    IF LoadRaises(r.docs, tool_id) THEN [raised |-> TRUE, value |-> <<>>]
    ELSE [raised |-> FALSE, value |-> LoadMetadata(r.docs, tool_id)]

\* The exception of load leaves a scan that loads every directory: none of
\* list_tools, find_by_template_id and get_all_artifact_paths handles it.
ScanRaises(r) == \E i \in 1..Len(r.order) : LoadRaises(r.docs, r.order[i])

\* list_tools(): the exception, or the metadata in directory order.
ListToolsOutcome(r) ==
    IF ScanRaises(r) THEN [raised |-> TRUE, value |-> <<>>]
    ELSE [raised |-> FALSE, value |-> ListTools(r)]

\* The tool ids, in order, of the metadata with this template id.
RECURSIVE MatchingToolIds(_, _)
MatchingToolIds(tools, template_id) ==
    IF tools = <<>> THEN <<>>
    ELSE (IF Head(tools).template_id = template_id THEN <<Head(tools).tool_id>> ELSE <<>>)
         \o MatchingToolIds(Tail(tools), template_id)

\* find_by_template_id(template_id): the exception, or the matching ids.
FindByTemplateIdOutcome(r, template_id) ==
    IF ScanRaises(r) THEN [raised |-> TRUE, value |-> <<>>]
    ELSE [raised |-> FALSE, value |-> MatchingToolIds(ListTools(r), template_id)]

\* The directory the process runs in, as path components.
Cwd == <<<<"w">>>>

\* path.resolve(): the absolute path (no links, no ".." in the model's paths).
Resolve(path) == IF path.root THEN path ELSE [path EXCEPT !.root = TRUE, !.parts = Cwd \o @]

\* get_all_artifact_paths(): the exception, or the set of resolved source
\* and tests paths.
ArtifactPathsOutcome(r) ==
    IF ScanRaises(r) THEN [raised |-> TRUE, value |-> {}]
    ELSE [raised |-> FALSE,
          value |-> UNION {{Resolve(ListTools(r)[i].source_path),
                            Resolve(ListTools(r)[i].tests_path)} : i \in 1..Len(r.order)}]

\* The tools registered before a scan: two from the same template, one from none.
ScanTools ==
    {Metadata(<<"t", "1">>, <<"1">>, Contract(PyTrue, <<>>, <<>>), <<".">>, <<>>, PyStr(<<"t", "p", "l">>)),
     Metadata(<<"t", "2">>, <<"2">>, Contract(PyFalse, <<>>, <<>>), <<"a", "/", "f", ".", "p", "y">>, <<>>, PyStr(<<"t", "p", "l">>)),
     Metadata(<<"t", "3">>, <<"1">>, Contract(PyTrue, <<>>, <<>>), <<"/", "b">>, <<>>, PyNone)}

ScanTemplateIds == {PyStr(<<"t", "p", "l">>), PyStr(<<"z", "z", "z">>)}

InitScan ==
    /\ mode = "scan"
    /\ registry = NoRegistry
    /\ workflow = NoWorkflow
    /\ cache = {}
    /\ stack = <<>>
    /\ outcome = Idle
    /\ log = <<>>
    /\ calls = 0
    /\ reg = EmptyRegistry
    /\ last = [op |-> "none", arg |-> <<>>, outcome |-> [raised |-> FALSE, value |-> <<>>],
               docs |-> <<>>, order |-> <<>>]
    /\ ops = 0

\* The metadata.json of a registered tool is damaged on disk.
CorruptEntry(tool_id) ==
    /\ mode = "scan"
    /\ tool_id \in DOMAIN reg.docs
    /\ ~LoadRaises(reg.docs, tool_id)
    /\ reg' = [reg EXCEPT !.docs[tool_id] = CorruptText]
    /\ UNCHANGED <<mode, registry, workflow, cache, stack, outcome, log, calls, last, ops>>

\* One call on the registry; last keeps its outcome and the registry it saw.
ScanCall(op, arg, result) ==
    /\ mode = "scan"
    /\ last' = [op |-> op, arg |-> arg, outcome |-> result,
                docs |-> reg.docs, order |-> reg.order]
    /\ UNCHANGED <<mode, registry, workflow, cache, stack, outcome, log, calls, reg, ops>>

ScanLoad(tool_id) == ScanCall("load", <<tool_id>>, LoadOutcome(reg, tool_id))
ScanListTools == ScanCall("list_tools", <<>>, ListToolsOutcome(reg))
ScanFindByTemplateId(template_id) ==
    ScanCall("find_by_template_id", <<template_id>>, FindByTemplateIdOutcome(reg, template_id))
ScanArtifactPaths == ScanCall("get_all_artifact_paths", <<>>, ArtifactPathsOutcome(reg))

\* register(metadata) of a tool that is absent or whose metadata.json is damaged.
ScanRegister(metadata) ==
    /\ mode = "scan"
    /\ metadata.tool_id.s \notin DOMAIN reg.docs \/ LoadRaises(reg.docs, metadata.tool_id.s)
    /\ Register(metadata)

NextScan ==
    \/ \E metadata \in ScanTools : ScanRegister(metadata)
    \/ \E tool_id \in DOMAIN reg.docs : CorruptEntry(tool_id)
    \/ \E tool_id \in LoadIds : ScanLoad(tool_id)
    \/ ScanListTools
    \/ \E template_id \in ScanTemplateIds : ScanFindByTemplateId(template_id)
    \/ ScanArtifactPaths

SpecScan == InitScan /\ [][NextScan]_vars

\* The registry the last call saw, without its damaged entries.
SeenIntact ==
    LET Intact(tool_id) == ~LoadRaises(last.docs, tool_id)
    IN  [docs |-> last.docs, order |-> SelectSeq(last.order, Intact)]

\* The last call saw a registry with a damaged entry.
SawCorruptEntry ==
    /\ mode = "scan"
    /\ last.op \in {"load", "list_tools", "find_by_template_id", "get_all_artifact_paths"}
    /\ \E i \in 1..Len(last.order) : LoadRaises(last.docs, last.order[i])

\* C18: with a corrupt metadata document in the registry, list_tools,
\* find_by_template_id and get_all_artifact_paths return what they return
\* for the intact entries alone, and load of the corrupt entry fails.
C18_ScansSkipCorruptEntry ==
    SawCorruptEntry =>
        /\ last.op = "list_tools" =>
              (~last.outcome.raised /\ last.outcome.value = ListTools(SeenIntact))
        /\ last.op = "find_by_template_id" =>
              /\ ~last.outcome.raised
              /\ last.outcome.value = MatchingToolIds(ListTools(SeenIntact), last.arg[1])
        /\ last.op = "get_all_artifact_paths" =>
              (~last.outcome.raised /\ last.outcome.value = ArtifactPathsOutcome(SeenIntact).value)
        /\ (last.op = "load" /\ LoadRaises(last.docs, last.arg[1])) => last.outcome.raised

(***************************************************************************)
(* Executables that cannot be loaded, checked under Spec                   *)
(***************************************************************************)

\* The top record is about to run step logic on a registered tool that is
\* not served from the execution cache and whose source file is in state exe.
NeedsTool(exe) ==
    /\ mode = "engine" /\ stack # <<>>
    /\ ToolReady(Top)
    /\ ~(IsPure(Load(registry, ToolIdToRun(Top))) /\ CacheHit(Top))
    /\ Load(registry, ToolIdToRun(Top)).exe \in exe

\* The workflow is left with this exception, nothing invoked, nothing cached.
AbortsWith(exception) ==
    /\ outcome'.status = "raised"
    /\ outcome'.result = exception
    /\ stack' = <<>>
    /\ log' = log
    /\ registry'.executable_cache = registry.executable_cache

\* C19: get_executable fails with FileNotFoundError when the source file is
\* missing and with a reported load error (no executable returned) when the
\* entry point is absent or not callable; it stores nothing in the
\* executable cache, no such tool is ever invoked, and a step that needs the
\* tool aborts the workflow: with the FileNotFoundError, or with the
\* RuntimeError that names the step and the tool.
C19_UnloadableToolAborts ==
    /\ [](mode = "engine" =>
            /\ \A i \in 1..Len(registry.tools) :
                  LET tool == registry.tools[i]
                  IN  /\ tool.exe = "missing" =>
                            GetExecutable(registry, tool.tool_id).out = "FileNotFoundError"
                      /\ tool.exe \in {"no_entry", "not_callable"} =>
                            GetExecutable(registry, tool.tool_id).out = "None"
                      /\ tool.exe # "ok" => tool.tool_id \notin registry.executable_cache
            /\ \A i \in 1..Len(log) :
                  log[i].invoked => Load(registry, log[i].tool).exe = "ok")
    /\ [][/\ NeedsTool({"missing"}) =>
                AbortsWith(Raise("FileNotFoundError", <<>>, ToolIdToRun(Top)))
          /\ NeedsTool({"no_entry", "not_callable"}) =>
                AbortsWith(Raise("RuntimeError", CurStep(Top).id, ToolIdToRun(Top)))]_vars

\* C19's case: on an engine that has run before, a step needed the tool whose
\* source file defines the name as something not callable, and execute raised.
C19_Witness ==
    /\ mode = "engine" /\ outcome.status = "raised" /\ calls = 2
    /\ workflow = TestPipeline
    /\ Load(registry, "print_msg").exe = "not_callable"
    /\ outcome.result = Raise("RuntimeError", <<"s", "t", "e", "p", "1">>, "print_msg")
    /\ log = <<>>
    /\ registry.executable_cache = {}

(***************************************************************************)
(* BwrapSandbox.run, the argument vector it builds: SpecSandbox            *)
(***************************************************************************)

\* str(n) for a natural number
RECURSIVE Decimal(_)
Decimal(n) ==
    LET digit == <<"0", "1", "2", "3", "4", "5", "6", "7", "8", "9">>[(n % 10) + 1]
    IN  IF n < 10 THEN <<digit>> ELSE Append(Decimal(n \div 10), digit)

\* Mutant: prlimit is not on the host.
Which_NoPrlimit(cmd) == IF cmd = <<"b", "w", "r", "a", "p">> THEN <<"/", "u", "s", "r", "/", "b", "i", "n", "/">> \o cmd ELSE <<>>

\* shutil.which on the host of test_sandbox_resource_limits: bwrap and
\* prlimit are found, nothing else (<<>> for None).
Which(cmd) == IF cmd \in {<<"b", "w", "r", "a", "p">>, <<"p", "r", "l", "i", "m", "i", "t">>} THEN <<"/", "u", "s", "r", "/", "b", "i", "n", "/">> \o cmd ELSE <<>>

\* SandboxPolicy: the limits and the confinement flag.
SandboxPolicy(memory_limit_mb, cpu_time_limit_sec, allow_network) ==
    [memory_limit_mb |-> memory_limit_mb, cpu_time_limit_sec |-> cpu_time_limit_sec,
     allow_network |-> allow_network]

\* The namespace-isolation wrapper: a read-only view of the filesystem with
\* the working directory writable, the network unshared unless allowed.
IsolationWrapper(policy, workdir) ==
    IF Which(<<"b", "w", "r", "a", "p">>) = <<>> THEN <<>>
    ELSE <<<<"b", "w", "r", "a", "p">>, <<"-", "-", "r", "o", "-", "b", "i", "n", "d">>, <<"/">>, <<"/">>, <<"-", "-", "b", "i", "n", "d">>, workdir, workdir, <<"-", "-", "c", "h", "d", "i", "r">>, workdir>>
         \o (IF policy.allow_network THEN <<>> ELSE <<<<"-", "-", "u", "n", "s", "h", "a", "r", "e", "-", "n", "e", "t">>>>)
         \o <<<<"-", "-">>>>

\* The resource-limiting wrapper: the address space in bytes, the CPU time in
\* seconds.
LimitWrapper(policy) ==
    IF Which(<<"p", "r", "l", "i", "m", "i", "t">>) = <<>> THEN <<>>
    ELSE <<<<"p", "r", "l", "i", "m", "i", "t">>,
           <<"-", "-", "a", "s", "=">> \o Decimal(policy.memory_limit_mb * 1024 * 1024),
           <<"-", "-", "c", "p", "u", "=">> \o Decimal(policy.cpu_time_limit_sec)>>

\* The argument vector handed to subprocess.run.
SandboxCommand(policy, command, workdir) ==
    IsolationWrapper(policy, workdir) \o LimitWrapper(policy) \o command

\* The policies (the test's 512 MB and 10 s among them; the largest cap is
\* below 2^31 bytes), the commands, one of which looks like the wrappers'
\* own arguments, and the working directories.
MemoryLimits == {1, 20, 512, 2047}
CpuLimits == {1, 10, 60}
Policies ==
    {SandboxPolicy(mb, sec, net) : mb \in MemoryLimits, sec \in CpuLimits, net \in BOOLEAN}
Commands ==
    {<<<<"e", "c", "h", "o">>, <<"h", "e", "l", "l", "o">>>>, <<<<"p", "r", "l", "i", "m", "i", "t">>, <<"-", "-", "a", "s", "=", "1">>, <<"-", "-">>, <<"l", "s">>>>, <<<<"s", "h">>, <<"-", "c">>, <<"a", " ", "-", "-", " ", "b">>>>}
Workdirs == {<<"/", "t", "m", "p">>, <<"/", "w">>}

InitSandbox ==
    /\ mode = "sandbox"
    /\ registry = NoRegistry
    /\ workflow = NoWorkflow
    /\ cache = {}
    /\ stack = <<>>
    /\ outcome = Idle
    /\ log = <<>>
    /\ calls = 0
    /\ reg = EmptyRegistry
    /\ last = [op |-> "none"]
    /\ ops = 0

\* BwrapSandbox(policy).run(command, workdir=workdir)
SandboxRun(policy, command, workdir) ==
    /\ mode = "sandbox"
    /\ last' = [op |-> "run", policy |-> policy, command |-> command, workdir |-> workdir,
                cmd_list |-> SandboxCommand(policy, command, workdir)]
    /\ UNCHANGED <<mode, registry, workflow, cache, stack, outcome, log, calls, reg, ops>>

NextSandbox ==
    \E policy \in Policies, command \in Commands, workdir \in Workdirs :
        SandboxRun(policy, command, workdir)

SpecSandbox == InitSandbox /\ [][NextSandbox]_vars

\* int(text) for a decimal numeral without sign, -1 for anything else.
RECURSIVE DecimalValue(_)
DecimalValue(text) ==
    LET digits == <<"0", "1", "2", "3", "4", "5", "6", "7", "8", "9">>
        Value(c) == (CHOOSE d \in 1..10 : digits[d] = c) - 1
        IsDigit(c) == \E d \in 1..10 : digits[d] = c
    IN  IF text = <<>> \/ ~IsDigit(text[Len(text)]) THEN -1
        ELSE IF Len(text) = 1 THEN Value(text[1])
        ELSE IF DecimalValue(SubSeq(text, 1, Len(text) - 1)) < 0 THEN -1
        ELSE 10 * DecimalValue(SubSeq(text, 1, Len(text) - 1)) + Value(text[Len(text)])

\* The number that follows the prefix in arg, -1 when arg is not prefix + numeral.
LimitOf(arg, prefix) ==
    IF StartsWith(arg, prefix) THEN DecimalValue(SubSeq(arg, Len(prefix) + 1, Len(arg))) ELSE -1

IsStepField(text) == StartsWith(text, <<"$">>) /\ Contains(Tail(text), <<".">>)

\* The step and the field a "$step.field" text names.
StepOf(text) == SplitOnce(Tail(text), <<".">>)[1]
FieldOf(text) == SplitOnce(Tail(text), <<".">>)[2]

\* The steps named by the $step.field bindings of the top record's current
\* step that have no entry in its context, or an entry that is no mapping.
UnresolvedSteps ==
    {StepOf(CurStep(Top).bind[b][2]) :
        b \in {c \in 1..Len(CurStep(Top).bind) :
                  /\ IsStepField(CurStep(Top).bind[c][2])
                  /\ \/ ~HasKey(Top.context, StepOf(CurStep(Top).bind[c][2]))
                     \/ Get(Top.context, StepOf(CurStep(Top).bind[c][2])).t # "dict"}}

\* The top record is about to bind and run a step with such a binding.
AtUnresolvedBinding ==
    /\ mode = "engine" /\ stack # <<>>
    /\ ReadyToRun(Top)
    /\ UnresolvedSteps # {}

\* C21: a step with a $step.field binding whose step has no entry in the
\* context, or an entry that is no mapping, makes execute raise the
\* ValueError naming that step with nothing invoked for the binding step;
\* and where step logic ran, every such binding had resolved to the value of
\* field in the mapping: BindPipeline's "h" got the result of "g", and "i" got
\* the input p's value for f (None when p has no f).
C21_StepFieldBinding ==
    /\ [][AtUnresolvedBinding =>
             /\ outcome'.status = "raised"
             /\ outcome'.result.exc = "ValueError"
             /\ outcome'.result.step \in UnresolvedSteps
             /\ log' = log
             /\ stack' = <<>>]_vars
    /\ []((mode = "engine" /\ workflow = BindPipeline) =>
            \A e \in 1..Len(log) :
                /\ log[e].step = <<"h">> =>
                      /\ e > 1 /\ log[e - 1].step = <<"g">>
                      /\ Get(log[e].kwargs, <<"x">>) = log[e - 1].result
                /\ log[e].step = <<"i">> =>
                      /\ Get(outcome.inputs, <<"p">>).t = "dict"
                      /\ Get(log[e].kwargs, <<"x">>) = Get(Get(outcome.inputs, <<"p">>), <<"f">>)
                /\ log[e].step # <<"j">>)

\* C21's case: BindPipeline ran "g", "h" with the result of "g" and "i" with
\* the input's p.f, and raised at "j", whose binding names "h", a step that
\* ran and declared no output.
C21_Witness ==
    /\ mode = "engine" /\ workflow = BindPipeline
    /\ outcome.status = "raised"
    /\ outcome.result = Raise("ValueError", <<"h">>, "")
    /\ Len(log) = 3
    /\ Get(log[3].kwargs, <<"x">>) = B

(***************************************************************************)
(* The execution cache and the arguments of a call, checked under Spec     *)
(***************************************************************************)

\* C22: in the first execute call of an engine, a run of step logic served
\* from the execution cache follows an invocation of the same tool with
\* equal arguments (SameParams: name by name and value by value, a value
\* being equal only to a value of its own type).
C22_CacheHitHasEqualArguments ==
    (mode = "engine" /\ calls = 1) =>
        \A j \in 1..Len(log) :
            ~log[j].invoked =>
                \E i \in 1..(j - 1) :
                    /\ log[i].invoked
                    /\ log[i].tool = log[j].tool
                    /\ SameParams(log[i].kwargs, log[j].kwargs)

(***************************************************************************)
(* Conditions without and with an operator, checked under SpecCond         *)
(***************************************************************************)

\* The condition evaluated is one text without "==" and "!=" that resolves.
SingleVariable ==
    /\ mode = "cond" /\ last.done
    /\ last.condition # <<>>
    /\ ~Contains(last.condition, <<"=", "=">>) /\ ~Contains(last.condition, <<"!", "=">>)
    /\ ~Unresolvable(last.condition, last.context)

\* What the single text resolves to: the context's value (None when absent)
\* for "$name", the mapping's value for "$step.field", else the literal.
Resolved == ResolveValue(last.condition, last.context, PyNone)

\* C23 as stated: the result is false exactly when the resolved value is
\* False, the number 0, the empty string or absent (None).
C23_FalseForFalseZeroEmptyAbsent ==
    SingleVariable =>
        (last.result = FALSE <=> Resolved \in {PyFalse, Zero, PyStr(<<>>), PyNone})

\* C23 amended: the result is false exactly when the resolved value is
\* False, the number 0, the empty string, an empty list, an empty mapping or
\* absent (None).
C23_FalseForFalsyValue ==
    SingleVariable =>
        (last.result = FALSE <=>
            Resolved \in {PyFalse, Zero, PyStr(<<>>), PyNone, PyList(<<>>), PyDict(<<>>)})

\* C23's case: "$x" with x an empty list evaluated to false.
C23_Witness ==
    /\ SingleVariable
    /\ last.condition = <<"$", "x">>
    /\ Get(last.context, <<"x">>) = PyList(<<>>)
    /\ last.result = FALSE

\* The condition is l op r for two operand texts, with or without blanks
\* around the operator.
IsComparison(l, op, r) ==
    last.condition \in {l \o <<" ">> \o op \o <<" ">> \o r, l \o op \o r}

\* str() of what an operand text resolves to in the context evaluated.
Stringified(text) == PyStrOf(ResolveValue(text, last.context, PyNone))

\* C24: for two operands that resolve, "l == r" is the equality and
\* "l != r" the inequality of their stringified values, so each is the
\* opposite of the other in the same context; the empty condition is true.
C24_ComparisonOfStrings ==
    (mode = "cond" /\ last.done) =>
        /\ last.condition = <<>> => last.result = TRUE
        /\ \A l \in Operands, r \in Operands :
              (~Unresolvable(l, last.context) /\ ~Unresolvable(r, last.context)) =>
                  /\ IsComparison(l, <<"=", "=">>, r) =>
                        /\ last.result = (Stringified(l) = Stringified(r))
                        /\ last.result # EvaluateCondition(l \o <<" ", "!", "=", " ">> \o r, last.context)
                  /\ IsComparison(l, <<"!", "=">>, r) =>
                        /\ last.result = (Stringified(l) # Stringified(r))
                        /\ last.result # EvaluateCondition(l \o <<" ", "=", "=", " ">> \o r, last.context)

\* C24's case: "$x == 1" with x the integer 1 is true, the two sides being
\* equal as strings only.
C24_Witness ==
    /\ mode = "cond" /\ last.done
    /\ last.condition = <<"$", "x", " ", "=", "=", " ", "1">>
    /\ Get(last.context, <<"x">>) = One
    /\ last.result = TRUE

(***************************************************************************)
(* _resolve_value on literal texts: SpecLiteral                            *)
(***************************************************************************)

\* The literal texts: every text of at most MaxLiteralLen characters over
\* the two quote characters and a letter.
MaxLiteralLen == 4
LiteralTexts ==
    UNION {[1..n -> {"'", "\"", "k"}] : n \in 0..MaxLiteralLen}

InitLiteral ==
    /\ mode = "literal"
    /\ registry = NoRegistry
    /\ workflow = NoWorkflow
    /\ cache = {}
    /\ stack = <<>>
    /\ outcome = Idle
    /\ log = <<>>
    /\ calls = 0
    /\ reg = <<>>
    /\ \E value \in LiteralTexts : last = [value |-> value, done |-> FALSE, result |-> PyNone]
    /\ ops = 0

\* self._resolve_value(value, context) for a binding of a step
ResolveLiteral ==
    /\ mode = "literal"
    /\ ~last.done
    /\ last' = [last EXCEPT !.done = TRUE,
                            !.result = ResolveValue(last.value, PyDict(<<>>), PyNone)]
    /\ ops' = ops + 1
    /\ UNCHANGED <<mode, registry, workflow, cache, stack, outcome, log, calls, reg>>

NextLiteral == ResolveLiteral

SpecLiteral == InitLiteral /\ [][NextLiteral]_vars

\* The text begins and ends with the same quote character.
Quoted(text) == Len(text) >= 2 /\ text[1] \in {"'", "\""} /\ text[Len(text)] = text[1]

\* C25: a literal text resolves to the string without its one layer of
\* surrounding quotes when it has one, and to the text itself when it has
\* none; a text in two layers of quotes keeps the inner layer.
C25_OneQuoteLayerRemoved ==
    (mode = "literal" /\ last.done) =>
        last.result = PyStr(IF Quoted(last.value)
                            THEN SubSeq(last.value, 2, Len(last.value) - 1)
                            ELSE last.value)

(***************************************************************************)
(* Nested workflows that lead back to themselves, checked under Spec       *)
(***************************************************************************)

\* The tool_ids of the steps of comp_spec that run whenever they are reached.
UnconditionalRefs(comp_spec) ==
    {comp_spec.steps[i].tool_id :
        i \in {j \in 1..Len(comp_spec.steps) :
                  comp_spec.steps[j].if_condition = <<>> /\ comp_spec.steps[j].foreach = <<>>}}

\* The ids reached from ids through the unconditional steps of cached
\* workflows, in at most n rounds.
RECURSIVE ReachableIds(_, _)
ReachableIds(ids, n) ==
    IF n = 0 THEN ids
    ELSE ReachableIds(
             ids \cup UNION {UnconditionalRefs(FindWorkflowById(registry, id)[1]) :
                                id \in {i \in ids : FindWorkflowById(registry, i) # <<>>}},
             n - 1)

\* comp_spec has an unconditional step that names it, or names a workflow
\* that leads back to it.
LeadsBack(comp_spec) ==
    comp_spec.pipeline_id \in
        ReachableIds(UnconditionalRefs(comp_spec), Len(registry.cached_specs))

\* The activation records of the workflows the current step's tool_id names.
ActiveNamed == {d \in 1..Len(stack) : stack[d].comp_spec.pipeline_id = CurStep(Top).tool_id}

\* Step logic is about to run a step that names a workflow already running.
AtSelfReference ==
    /\ mode = "engine" /\ stack # <<>>
    /\ ReadyToRun(Top)
    /\ BindError(Top) = <<>>
    /\ ActiveNamed # {}
    /\ Len(stack) < MaxDepth

\* execute is entered once more, on the running workflow the step names.
Reentered ==
    \E d \in ActiveNamed : stack' = Append(stack, NewFrame(stack[d].comp_spec, Kwargs(Top)))

AtCachedSelfReference ==
    /\ AtSelfReference
    /\ \E d \in ActiveNamed :
           FindWorkflowById(registry, CurStep(Top).tool_id) = <<stack[d].comp_spec>>

AllRefs(comp_spec) == {comp_spec.steps[i].tool_id : i \in 1..Len(comp_spec.steps)}

\* The ids reached from ids through the steps of cached workflows, in at
\* most n rounds.
RECURSIVE NestedIds(_, _)
NestedIds(ids, n) ==
    IF n = 0 THEN ids
    ELSE NestedIds(
             ids \cup UNION {AllRefs(FindWorkflowById(registry, id)[1]) :
                                id \in {i \in ids : FindWorkflowById(registry, i) # <<>>}},
             n - 1)

\* The nested-workflow references reached from comp_spec form no cycle: no
\* cached workflow reached from it is reached from its own steps.
Acyclic(comp_spec) ==
    \A id \in NestedIds(AllRefs(comp_spec), Len(registry.cached_specs)) :
        FindWorkflowById(registry, id) # <<>> =>
            id \notin NestedIds(AllRefs(FindWorkflowById(registry, id)[1]),
                                Len(registry.cached_specs))

\* Activation record g is f one piece of work later: the next step, the
\* loop of the same step entered at its first item, or the next item.
Ahead(f, g) ==
    /\ g.comp_spec = f.comp_spec
    /\ \/ g.pc = f.pc + 1 /\ ~g.in_loop
       \/ g.pc = f.pc /\ ~f.in_loop /\ g.in_loop /\ g.k = 1
       \/ g.pc = f.pc /\ f.in_loop /\ g.in_loop /\ g.k = f.k + 1
               /\ g.loop_collection = f.loop_collection

\* A step of a running call moves exactly one activation record ahead, or
\* enters a nested workflow at its first step.
OneWay ==
    stack # <<>> /\ stack' # <<>> /\ stack' # stack =>
        LET n == Len(stack)
        IN  CASE Len(stack') = n ->
                   /\ Ahead(Top, stack'[n])
                   /\ \A d \in 1..(n - 1) : stack'[d] = stack[d]
              [] Len(stack') = n + 1 ->
                   /\ \A d \in 1..n : stack'[d] = stack[d]
                   /\ stack'[n + 1].pc = 1 /\ ~stack'[n + 1].in_loop
              [] Len(stack') = n - 1 ->
                   /\ Ahead(stack[n - 1], stack'[n - 1])
                   /\ \A d \in 1..(n - 2) : stack'[d] = stack[d]
              [] OTHER -> FALSE

\* C27: for a workflow whose nested-workflow references form no cycle a
\* running execute call ends, by returning a context or by raising; until
\* then every step of the run moves one activation record to its next step
\* or its next foreach item, so no step and no item is processed twice.
C27_ExecuteTerminates ==
    /\ [][mode = "engine" /\ Acyclic(workflow) => OneWay]_vars
    /\ (mode = "engine" /\ Acyclic(workflow) /\ outcome.status = "running")
           ~> (stack = <<>> /\ outcome.status \in {"returned", "raised"})

\* C27: a run with a foreach loop over several items and a run with a
\* nested workflow have returned.
C27_Witness ==
    /\ mode = "engine"
    /\ Acyclic(workflow)
    /\ outcome.status = "returned"
    /\ Len(log) >= 2
    /\ \/ \E i \in 1..Len(workflow.steps) : workflow.steps[i].foreach # <<>>
       \/ \E i \in 1..Len(workflow.steps) :
              FindWorkflowById(registry, workflow.steps[i].tool_id) # <<>>

(***************************************************************************)
(* The embedding cache of search_tools, checked under SpecSearch           *)
(***************************************************************************)

\* The last operation was a semantic search.
SemanticSearched == mode = "search" /\ last.op = "search" /\ last.embedder # "none"

\* The hashes of the texts of the registered tools.
RegisteredHashes == {ToolHash(reg.written[id]) : id \in DOMAIN reg.written}

\* C28: a semantic search that found every registered tool's embedding in
\* the cache called the embedder for nothing but the query and left
\* embeddings_cache.json as it was; the document changes only in a semantic
\* search that computed a tool's embedding, and then it holds every entry it
\* held before, unchanged, and the embedder's vector for each new text.
C28_EmbeddingCacheFrame ==
    /\ [](SemanticSearched =>
            /\ RegisteredHashes \subseteq DOMAIN last.before =>
                  /\ \A i \in 1..Len(last.embedded) : last.embedded[i] = last.query
                  /\ Len(last.embedded) <= 1
                  /\ ~last.dirty
                  /\ reg.embeddings = last.before
            /\ last.dirty =>
                  /\ \E i \in 2..Len(last.embedded) :
                        HashPayload(<<last.embedded[i]>>) \in RegisteredHashes \ DOMAIN last.before
                  /\ \A h \in DOMAIN last.before :
                        h \in DOMAIN reg.embeddings /\ reg.embeddings[h] = last.before[h]
                  /\ \A id \in DOMAIN reg.written :
                        LET h == ToolHash(reg.written[id])
                        IN  /\ h \in DOMAIN reg.embeddings
                            /\ h \notin DOMAIN last.before =>
                                  reg.embeddings[h] =
                                      Embed(last.embedder, EmbeddedText(reg.written[id]))
                  /\ DOMAIN reg.embeddings = DOMAIN last.before \cup RegisteredHashes)
    /\ [][mode = "search" /\ reg'.embeddings # reg.embeddings =>
              /\ last'.op = "search" /\ last'.embedder # "none" /\ last'.dirty
              /\ last'.before = reg.embeddings]_vars

\* C28: a semantic search over two registered tools found both embeddings
\* in a cache an earlier search had written.
C28_Witness ==
    /\ SemanticSearched
    /\ Cardinality(DOMAIN reg.written) >= 2
    /\ RegisteredHashes \subseteq DOMAIN last.before
    /\ last.embedded = <<last.query>>

(***************************************************************************)
(* The spec cache: cache_spec, load_cached_spec, find_workflow_by_id       *)
(*   reg.files: the documents of cached_specs/, in glob("*.json") order    *)
(*     cache_id: the file stem                                             *)
(*     spec_type, pipeline_id: what cache_spec wrote                       *)
(*     damage: what has happened to the document on disk since             *)
(***************************************************************************)

\* Documents in cached_specs/ in one behaviour.
MaxCacheEntries == 3

\* What cache_spec is called with: a ToolSpec, or a CompositionSpec with
\* one of two pipeline ids.
CachedKinds ==
    {[spec_type |-> "ToolSpec", pipeline_id |-> ""],
     [spec_type |-> "CompositionSpec", pipeline_id |-> "p"],
     [spec_type |-> "CompositionSpec", pipeline_id |-> "q"]}

\* The ways a cache document is damaged: no JSON at all; a JSON list; an
\* object with a spec_type that is neither kind, without "spec", or with a
\* spec that lacks "description".
Damages == {"not_json", "not_object", "unknown_type", "no_spec", "no_description"}

\* The damages that leave nothing of what cache_spec wrote to be read.
Unreadable == {"not_json", "not_object", "unknown_type"}

\* The pipeline ids looked for.
PipelineIds == {"p", "q", "z"}

PyAbsent == [kind |-> "None", pipeline_id |-> ""]

\* Lines 234-312, the body of the try in load_cached_spec: the object built
\* from the document, or the name of the exception raised on the way.
Hydrate(doc) ==
    CASE doc.damage = "not_json" -> [raised |-> TRUE, value |-> "JSONDecodeError"]
      [] doc.damage = "not_object" -> [raised |-> TRUE, value |-> "TypeError"]
      [] doc.damage = "no_spec" -> [raised |-> TRUE, value |-> "KeyError"]
      [] doc.damage = "unknown_type" -> [raised |-> TRUE, value |-> "TypeError"]
      [] doc.damage = "no_description" ->
           [raised |-> TRUE,
            value |-> IF doc.spec_type = "ToolSpec" THEN "TypeError" ELSE "KeyError"]
      [] OTHER -> [raised |-> FALSE,
                   value |-> [kind |-> doc.spec_type, pipeline_id |-> doc.pipeline_id]]

\* The exceptions 'except Exception' catches.
Exceptions == {"JSONDecodeError", "TypeError", "KeyError", "AttributeError"}

\* load_cached_spec(cache_id): None when there is no such file or the try
\* body raised an Exception, else the object.
LoadCachedSpecOutcome(files, cache_id) ==
    LET found == {i \in 1..Len(files) : files[i].cache_id = cache_id}
        body == Hydrate(files[CHOOSE i \in found : TRUE])
    IN  IF found = {} THEN [raised |-> FALSE, value |-> PyAbsent]
        ELSE IF body.raised /\ body.value \in Exceptions
            THEN [raised |-> FALSE, value |-> PyAbsent]
        ELSE body

\* Mutant: a matching document that cannot be loaded ends the scan with None.
FindStep_ReturnsLoadResult(files, i, pipeline_id) ==
    LET doc == files[i]
    IN  IF doc.damage \in {"not_json", "not_object"} THEN "continue"
        ELSE IF doc.spec_type # "CompositionSpec" THEN "next"
        ELSE IF doc.damage = "no_spec" THEN "continue"
        ELSE IF doc.pipeline_id # pipeline_id THEN "next"
        ELSE "return"

\* Lines 327-341, one round of the loop of find_workflow_by_id on file i:
\* "return" when load_cached_spec's result is returned, "continue" when the
\* bare except skipped the file, "next" when the file did not match.
FindStep(files, i, pipeline_id) ==
    LET doc == files[i]
        loaded == LoadCachedSpecOutcome(files, doc.cache_id)
    IN  IF doc.damage \in {"not_json", "not_object"} THEN "continue"
        ELSE IF doc.spec_type # "CompositionSpec" THEN "next"
        ELSE IF doc.damage = "no_spec" THEN "continue"
        ELSE IF doc.pipeline_id # pipeline_id THEN "next"
        ELSE IF loaded.raised \/ loaded.value = PyAbsent THEN "continue"
        ELSE "return"

\* find_workflow_by_id(pipeline_id): the object of the first file whose
\* round returns, None when no round does.
FindWorkflowByIdOutcome(files, pipeline_id) ==
    LET returning == {i \in 1..Len(files) : FindStep(files, i, pipeline_id) = "return"}
    IN  IF returning = {} THEN [raised |-> FALSE, value |-> PyAbsent]
        ELSE LoadCachedSpecOutcome(
                 files, files[CHOOSE i \in returning : \A j \in returning : i <= j].cache_id)

InitCache ==
    /\ mode = "cache"
    /\ registry = NoRegistry
    /\ workflow = NoWorkflow
    /\ cache = {}
    /\ stack = <<>>
    /\ outcome = Idle
    /\ log = <<>>
    /\ calls = 0
    /\ reg = [files |-> <<>>]
    /\ last = [op |-> "none", arg |-> "", outcome |-> [raised |-> FALSE, value |-> PyAbsent]]
    /\ ops = 0

\* cache_spec(spec, context): a new document under a fresh cache id, which
\* glob lists before or after the others.
CacheSpec(kind, place) ==
    /\ mode = "cache"
    /\ Len(reg.files) < MaxCacheEntries
    /\ reg' = [reg EXCEPT !.files =
                  InsertAt(@, place, [cache_id |-> Len(@) + 1, spec_type |-> kind.spec_type,
                                      pipeline_id |-> kind.pipeline_id, damage |-> "none"])]
    /\ last' = [op |-> "cache_spec", arg |-> Len(reg.files) + 1,
                outcome |-> [raised |-> FALSE, value |-> PyAbsent]]
    /\ UNCHANGED <<mode, registry, workflow, cache, stack, outcome, log, calls, ops>>

\* A cache document is damaged on disk.
DamageEntry(i, damage) ==
    /\ mode = "cache"
    /\ reg.files[i].damage = "none"
    /\ reg' = [reg EXCEPT !.files[i] =
                  IF damage \in Unreadable
                  THEN [cache_id |-> @.cache_id, spec_type |-> "", pipeline_id |-> "",
                        damage |-> damage]
                  ELSE [@ EXCEPT !.damage = damage]]
    /\ last' = [op |-> "damage", arg |-> reg.files[i].cache_id,
                outcome |-> [raised |-> FALSE, value |-> PyAbsent]]
    /\ UNCHANGED <<mode, registry, workflow, cache, stack, outcome, log, calls, ops>>

\* One call on the spec cache; last keeps its outcome.
CacheCall(op, arg, result) ==
    /\ mode = "cache"
    /\ last' = [op |-> op, arg |-> arg, outcome |-> result]
    /\ UNCHANGED <<mode, registry, workflow, cache, stack, outcome, log, calls, reg, ops>>

CacheLoad(cache_id) ==
    CacheCall("load_cached_spec", cache_id, LoadCachedSpecOutcome(reg.files, cache_id))

CacheFind(pipeline_id) ==
    CacheCall("find_workflow_by_id", pipeline_id, FindWorkflowByIdOutcome(reg.files, pipeline_id))

NextCache ==
    \/ \E kind \in CachedKinds, place \in {1, Len(reg.files) + 1} : CacheSpec(kind, place)
    \/ \E i \in 1..Len(reg.files), damage \in Damages : DamageEntry(i, damage)
    \/ \E cache_id \in 1..(MaxCacheEntries + 1) : CacheLoad(cache_id)
    \/ \E pipeline_id \in PipelineIds : CacheFind(pipeline_id)

SpecCache == InitCache /\ [][NextCache]_vars

\* The documents that hold a CompositionSpec with this pipeline_id and can
\* be decoded.
DecodableMatches(pipeline_id) ==
    {i \in 1..Len(reg.files) :
        /\ reg.files[i].spec_type = "CompositionSpec"
        /\ reg.files[i].pipeline_id = pipeline_id
        /\ reg.files[i].damage = "none"}

\* C29: find_workflow_by_id returns a CompositionSpec with the pipeline_id
\* asked for when the spec cache holds a decodable CompositionSpec entry with
\* that id, and None otherwise; ToolSpec entries and damaged documents are
\* passed over, and neither it nor load_cached_spec raises.
C29_FindWorkflowSkipsUndecodable ==
    mode = "cache" =>
        /\ last.op \in {"find_workflow_by_id", "load_cached_spec"} => ~last.outcome.raised
        /\ last.op = "find_workflow_by_id" =>
              IF DecodableMatches(last.arg) # {}
              THEN last.outcome.value = [kind |-> "CompositionSpec", pipeline_id |-> last.arg]
              ELSE last.outcome.value = PyAbsent

\* C29: the workflow was found behind a ToolSpec entry and a damaged
\* document with the same pipeline_id.
C29_Witness ==
    /\ mode = "cache" /\ last.op = "find_workflow_by_id"
    /\ \E i, j, k \in 1..Len(reg.files) :
          /\ i < k /\ j < k
          /\ reg.files[i].spec_type = "ToolSpec"
          /\ reg.files[j].spec_type = "CompositionSpec"
          /\ reg.files[j].pipeline_id = last.arg
          /\ reg.files[j].damage = "no_description"
          /\ DecodableMatches(last.arg) = {k}
    /\ last.outcome.value.kind = "CompositionSpec"

(***************************************************************************)
(* register and get_executable on one registry instance: SpecExec          *)
(*   reg.docs: tool id -> the source_path and spec.name of metadata.json   *)
(*   reg.executable_cache: tool id -> the callable of _executable_cache    *)
(***************************************************************************)

\* The tool ids registered and asked for.
ExecToolIds == {"t1", "t2"}

\* The source files on disk and the callables each defines; "gone.py" is
\* not there.
SourceFiles == [a_py |-> {"f", "g"}, b_py |-> {"f"}]

\* The source paths and entry points a metadata names.
SourcePaths == {"a_py", "b_py", "gone_py"}
EntryPoints == {"f", "g"}

\* The callable func_name of the module loaded from source_path.
Callable(source_path, func_name) == [source_path |-> source_path, name |-> func_name]

\* Lines 363-451 of get_executable, from the metadata on: FileNotFoundError
\* when the source file is missing, None when the name is not a callable of
\* the module, else the callable.
LoadExecutable(metadata) ==
    IF metadata.source_path \notin DOMAIN SourceFiles
    THEN [out |-> "FileNotFoundError", func |-> <<>>]
    ELSE IF metadata.name \notin SourceFiles[metadata.source_path]
    THEN [out |-> "None", func |-> <<>>]
    ELSE [out |-> "func", func |-> <<Callable(metadata.source_path, metadata.name)>>]

\* get_executable(tool_id): what it gives, and the executable cache after it.
GetExecutableOutcome(r, tool_id) ==
    IF tool_id \in DOMAIN r.executable_cache
    THEN [out |-> "func", func |-> <<r.executable_cache[tool_id]>>,
          executable_cache |-> r.executable_cache]
    ELSE IF tool_id \notin DOMAIN r.docs
    THEN [out |-> "None", func |-> <<>>, executable_cache |-> r.executable_cache]
    ELSE LET loaded == LoadExecutable(r.docs[tool_id])
         IN  [out |-> loaded.out, func |-> loaded.func,
              executable_cache |->
                  IF loaded.out = "func"
                  THEN [t \in DOMAIN r.executable_cache \cup {tool_id} |->
                           IF t = tool_id THEN loaded.func[1] ELSE r.executable_cache[t]]
                  ELSE r.executable_cache]

InitExec ==
    /\ mode = "exec"
    /\ registry = NoRegistry
    /\ workflow = NoWorkflow
    /\ cache = {}
    /\ stack = <<>>
    /\ outcome = Idle
    /\ log = <<>>
    /\ calls = 0
    /\ reg = [docs |-> <<>>, executable_cache |-> <<>>]
    /\ last = [op |-> "none", tool_id |-> "", out |-> "None", func |-> <<>>]
    /\ ops = 0

\* register(metadata): metadata.json of the tool is written; nothing else.
ExecRegister(tool_id, source_path, func_name) ==
    /\ mode = "exec"
    /\ ops < MaxOps
    /\ reg' = [reg EXCEPT !.docs =
                  [t \in DOMAIN @ \cup {tool_id} |->
                      IF t = tool_id THEN [source_path |-> source_path, name |-> func_name]
                      ELSE @[t]]]
    /\ last' = [op |-> "register", tool_id |-> tool_id, out |-> "None", func |-> <<>>]
    /\ ops' = ops + 1
    /\ UNCHANGED <<mode, registry, workflow, cache, stack, outcome, log, calls>>

\* get_executable(tool_id)
ExecGet(tool_id) ==
    /\ mode = "exec"
    /\ reg' = [reg EXCEPT !.executable_cache =
                  GetExecutableOutcome(reg, tool_id).executable_cache]
    /\ last' = [op |-> "get_executable", tool_id |-> tool_id,
                out |-> GetExecutableOutcome(reg, tool_id).out,
                func |-> GetExecutableOutcome(reg, tool_id).func]
    /\ UNCHANGED <<mode, registry, workflow, cache, stack, outcome, log, calls, ops>>

NextExec ==
    \/ \E tool_id \in ExecToolIds, source_path \in SourcePaths, func_name \in EntryPoints :
          ExecRegister(tool_id, source_path, func_name)
    \/ \E tool_id \in ExecToolIds : ExecGet(tool_id)

SpecExec == InitExec /\ [][NextExec]_vars

\* C30: whatever register and get_executable calls came before, a
\* get_executable call that returns an executable returns the one loaded
\* from the source file and under the name of the metadata registered last
\* under the tool id; one cached before a re-registration is not returned.
C30_ExecutableOfLatestMetadata ==
    mode = "exec" /\ last.op = "get_executable" /\ last.out = "func" =>
        /\ last.tool_id \in DOMAIN reg.docs
        /\ last.func = <<Callable(reg.docs[last.tool_id].source_path,
                                  reg.docs[last.tool_id].name)>>

====
